---- MODULE Spec2Model ----
(***************************************************************************)
(* IntuneCD: the Settings Catalog backup enrichment                        *)
(* (backup/Intune/SettingsCatalog.py) and the Settings Catalog             *)
(* documentation (intunecdlib/documentation_functions.py).                 *)
(*                                                                         *)
(* A Python str is a sequence of one-character strings, so that split,     *)
(* title, lower, strip and the regular expressions of the source are       *)
(* computed character by character.  A Python dict with optional keys is   *)
(* a record with a field `keys` holding the keys that are present.         *)
(***************************************************************************)
EXTENDS Integers, Sequences, FiniteSets, TLC

(***************************************************************************)
(* Python str primitives                                                   *)
(***************************************************************************)
Lowers == <<"a", "b", "c", "d", "e", "f", "g", "h", "i", "j", "k", "l", "m",
            "n", "o", "p", "q", "r", "s", "t", "u", "v", "w", "x", "y", "z">>

Uppers == <<"A", "B", "C", "D", "E", "F", "G", "H", "I", "J", "K", "L", "M",
            "N", "O", "P", "Q", "R", "S", "T", "U", "V", "W", "X", "Y", "Z">>

Digits == {"0", "1", "2", "3", "4", "5", "6", "7", "8", "9"}

\* The characters the model uses, in code point order (the order str
\* comparison uses).
Ascii == <<"\t", "\n", "\r", " ", "!", "#", "'", ",", "-", ".", "/",
           "0", "1", "2", "3", "4", "5", "6", "7", "8", "9", ":", ";", "<", "=",
           ">", "?", "A", "B", "C", "D", "E", "F", "G", "H", "I", "J", "K", "L",
           "M", "N", "O", "P", "Q", "R", "S", "T", "U", "V", "W", "X", "Y", "Z",
           "[", "]", "_", "a", "b", "c", "d", "e", "f", "g", "h", "i", "j",
           "k", "l", "m", "n", "o", "p", "q", "r", "s", "t", "u", "v", "w", "x",
           "y", "z", "{", "|", "}", "~">>

Range(f) == {f[i] : i \in DOMAIN f}

IsLower(c) == c \in Range(Lowers)

IsUpper(c) == c \in Range(Uppers)

IndexIn(c, seq) == CHOOSE i \in DOMAIN seq : seq[i] = c

ToLower(c) == IF IsUpper(c) THEN Lowers[IndexIn(c, Uppers)] ELSE c

ToUpper(c) == IF IsLower(c) THEN Uppers[IndexIn(c, Lowers)] ELSE c

Ord(c) == IndexIn(c, Ascii)

\* str.lower()
Lower(s) == [i \in DOMAIN s |-> ToLower(s[i])]

\* s < t for two str (lexicographic by code point)
RECURSIVE StrLess(_, _)
StrLess(s, t) ==
    IF t = <<>> THEN FALSE
    ELSE IF s = <<>> THEN TRUE
    ELSE IF Head(s) = Head(t) THEN StrLess(Tail(s), Tail(t))
    ELSE Ord(Head(s)) < Ord(Head(t))

StartsWith(s, p) == Len(p) <= Len(s) /\ SubSeq(s, 1, Len(p)) = p

EndsWith(s, p) == Len(p) <= Len(s) /\ SubSeq(s, Len(s) - Len(p) + 1, Len(s)) = p

\* sub in s
Contains(s, sub) ==
    \E i \in 1..(Len(s) - Len(sub) + 1) : SubSeq(s, i, i + Len(sub) - 1) = sub

Whitespace == {" ", "\t", "\n", "\r"}

\* str.strip()
RECURSIVE LStrip(_)
LStrip(s) == IF s # <<>> /\ Head(s) \in Whitespace THEN LStrip(Tail(s)) ELSE s

RECURSIVE RStripSet(_, _)
RStripSet(s, cs) ==
    IF s # <<>> /\ s[Len(s)] \in cs THEN RStripSet(SubSeq(s, 1, Len(s) - 1), cs)
    ELSE s

Strip(s) == RStripSet(LStrip(s), Whitespace)

\* str.split(sep) for a one-character separator
RECURSIVE SplitAcc(_, _, _)
SplitAcc(s, sep, cur) ==
    IF s = <<>> THEN <<cur>>
    ELSE IF Head(s) = sep THEN <<cur>> \o SplitAcc(Tail(s), sep, <<>>)
    ELSE SplitAcc(Tail(s), sep, Append(cur, Head(s)))

Split(s, sep) == SplitAcc(s, sep, <<>>)

\* sep.join(parts)
RECURSIVE Join(_, _)
Join(parts, sep) ==
    IF parts = <<>> THEN <<>>
    ELSE IF Len(parts) = 1 THEN parts[1]
    ELSE parts[1] \o sep \o Join(Tail(parts), sep)

\* str.replace(old, new) for a one-character old
RECURSIVE Replace(_, _, _)
Replace(s, old, new) ==
    IF s = <<>> THEN <<>>
    ELSE (IF Head(s) = old THEN new ELSE <<Head(s)>>) \o Replace(Tail(s), old, new)

\* str.title(): a cased character is upper-cased when the character before
\* it is not cased and lower-cased when it is.
RECURSIVE TitleFrom(_, _)
TitleFrom(s, prevCased) ==
    IF s = <<>> THEN <<>>
    ELSE LET c == Head(s)
             cased == IsLower(c) \/ IsUpper(c)
             out == IF ~cased THEN c
                    ELSE IF prevCased THEN ToLower(c) ELSE ToUpper(c)
         IN <<out>> \o TitleFrom(Tail(s), cased)

Title(s) == TitleFrom(s, FALSE)

\* the sequences of a sequence of sequences, concatenated
RECURSIVE ConcatAll(_)
ConcatAll(seqs) ==
    IF seqs = <<>> THEN <<>> ELSE Head(seqs) \o ConcatAll(Tail(seqs))


(***************************************************************************)
(* String constants of the source                                          *)
(***************************************************************************)
NotConfigured == <<"N", "o", "t", " ", "c", "o", "n", "f", "i", "g", "u", "r", "e", "d">>

CollectionValue == <<"C", "o", "l", "l", "e", "c", "t", "i", "o", "n", " ", "v", "a", "l", "u", "e">>

OtherSettings == <<"O", "t", "h", "e", "r", " ", "S", "e", "t", "t", "i", "n", "g", "s">>

UnknownSetting == <<"U", "n", "k", "n", "o", "w", "n", " ", "S", "e", "t", "t", "i", "n", "g">>

MachineInactivityKey == <<"m", "a", "c", "h", "i", "n", "e", "i", "n", "a", "c", "t", "i", "v", "i", "t", "y", "l", "i", "m", "i", "t">>

MachineInactivityName == <<"I", "n", "t", "e", "r", "a", "c", "t", "i", "v", "e", " ", "L", "o", "g", "o", "n", " ", "M", "a", "c", "h", "i", "n", "e", " ", "I", "n", "a", "c", "t", "i", "v", "i", "t", "y", " ", "L", "i", "m", "i", "t">>

\* The backquote character of the Markdown code fences, as one character.
Backquote == "BACKQUOTE"

Fence == <<Backquote, Backquote, Backquote>>

DetailsExpandOpen == <<"<", "d", "e", "t", "a", "i", "l", "s", ">", "<", "s", "u", "m", "m", "a", "r", "y", ">", ".", ".", ".", "e", "x", "p", "a", "n", "d", ".", ".", ".", "<", "/", "s", "u", "m", "m", "a", "r", "y", ">">>

DetailsClose == <<"<", "/", "d", "e", "t", "a", "i", "l", "s", ">">>

XmlDetailsOpen == <<"<", "d", "e", "t", "a", "i", "l", "s", " ", "c", "l", "a", "s", "s", "=", "'", "d", "e", "s", "c", "r", "i", "p", "t", "i", "o", "n", "'", ">", "<", "s", "u", "m", "m", "a", "r", "y", " ", "d", "a", "t", "a", "-", "o", "p", "e", "n", "=", "'", "M", "i", "n", "i", "m", "i", "z", "e", "'", " ", "d", "a", "t", "a", "-", "c", "l", "o", "s", "e", "=", "'", ".", ".", ".", "e", "x", "p", "a", "n", "d", ".", ".", ".", "'", ">", "<", "/", "s", "u", "m", "m", "a", "r", "y", ">", "\n", "\n">>

\* len(description) > 60
DescriptionLimit == 60

(***************************************************************************)
(* _format_setting_name                                                    *)
(***************************************************************************)
\* re.sub(r'_v\d+$', '', name): $ matches at the end and before a final \n
VersionSuffixAt(s, i) ==
    /\ i + 2 <= Len(s)
    /\ s[i] = "_"
    /\ s[i + 1] = "v"
    /\ \A j \in (i + 2)..Len(s) : s[j] \in Digits

RemoveVersionSuffix(name) ==
    LET nl == name # <<>> /\ name[Len(name)] = "\n"
        core == IF nl THEN SubSeq(name, 1, Len(name) - 1) ELSE name
        tail == IF nl THEN <<"\n">> ELSE <<>>
    IN IF \E i \in 1..Len(name) : VersionSuffixAt(name, i)
       THEN SubSeq(name, 1, (CHOOSE i \in 1..Len(name) : VersionSuffixAt(name, i)) - 1)
       ELSE IF \E i \in 1..Len(core) : VersionSuffixAt(core, i)
       THEN SubSeq(core, 1, (CHOOSE i \in 1..Len(core) : VersionSuffixAt(core, i)) - 1) \o tail
       ELSE name

\* re.sub(r'([a-z])([A-Z])', r'\1 \2', name)
RECURSIVE SpaceBeforeCapitals(_)
SpaceBeforeCapitals(s) ==
    IF Len(s) < 2 THEN s
    ELSE IF IsLower(s[1]) /\ IsUpper(s[2])
         THEN <<s[1], " ", s[2]>> \o SpaceBeforeCapitals(SubSeq(s, 3, Len(s)))
         ELSE <<s[1]>> \o SpaceBeforeCapitals(Tail(s))

\* mutant of MeaningfulParts: the last three parts whatever their number
MeaningfulPartsLastThree(parts) == SubSeq(parts, Len(parts) - 2, Len(parts))

\* parts[-3:] if len(parts) > 5 else parts[-2:]
MeaningfulParts(parts) ==
    IF Len(parts) > 5 THEN SubSeq(parts, Len(parts) - 2, Len(parts))
    ELSE SubSeq(parts, Len(parts) - 1, Len(parts))

format_setting_name(setting_definition_id) ==
    IF setting_definition_id = <<>> THEN UnknownSetting
    ELSE IF Contains(Lower(setting_definition_id), MachineInactivityKey)
         THEN MachineInactivityName
    ELSE LET parts == Split(setting_definition_id, "_") IN
         IF Len(parts) > 3
         THEN Title(SpaceBeforeCapitals(RemoveVersionSuffix(
                  Join(MeaningfulParts(parts), <<" ">>))))
         ELSE Title(Replace(setting_definition_id, "_", <<" ">>))

(***************************************************************************)
(* _format_value_for_markdown                                              *)
(***************************************************************************)
\* json.loads on the texts of the model.  The JSON texts its characters can
\* spell are 1, {}, [] and [v] for a JSON text v, with whitespace around the
\* tokens; every other text fails to parse.
RECURSIVE JsonParses(_)
JsonParses(text) ==
    LET t == Strip(text)
        inner == Strip(SubSeq(t, 2, Len(t) - 1))
    IN \/ t = <<"1">>
       \/ Len(t) >= 2 /\ Head(t) = "{" /\ t[Len(t)] = "}" /\ inner = <<>>
       \/ Len(t) >= 2 /\ Head(t) = "[" /\ t[Len(t)] = "]"
          /\ (inner = <<>> \/ JsonParses(inner))

Spaces(n) == [i \in 1..n |-> " "]

\* json.dumps(json.loads(text), indent=2), from the nesting depth `level` on
RECURSIVE JsonDumpsAt(_, _)
JsonDumpsAt(text, level) ==
    LET t == Strip(text)
        inner == Strip(SubSeq(t, 2, Len(t) - 1))
    IN IF t = <<"1">> THEN t
       ELSE IF inner = <<>> THEN <<Head(t), t[Len(t)]>>
       ELSE <<"[", "\n">> \o Spaces(2 * (level + 1)) \o JsonDumpsAt(inner, level + 1)
            \o <<"\n">> \o Spaces(2 * level) \o <<"]">>

JsonDumps(text) == JsonDumpsAt(text, 0)

LooksLikeXml(s) == StartsWith(s, <<"<">>) /\ EndsWith(s, <<">">>)

LooksLikeJson(s) ==
    \/ StartsWith(s, <<"{">>) /\ EndsWith(s, <<"}">>)
    \/ StartsWith(s, <<"[">>) /\ EndsWith(s, <<"]">>)

format_value_for_markdown(value) ==
    IF value = <<>> \/ value = NotConfigured THEN value
    ELSE LET stripped == Strip(value) IN
         IF LooksLikeXml(stripped)
         THEN XmlDetailsOpen \o Fence \o <<"x", "m", "l", "\n">> \o stripped
              \o <<"\n">> \o Fence \o <<"\n", "\n">> \o DetailsClose
         ELSE IF LooksLikeJson(stripped) /\ JsonParses(value)
         THEN <<"\n", "\n">> \o Fence \o <<"j", "s", "o", "n", "\n">> \o JsonDumps(value)
              \o <<"\n">> \o Fence \o <<"\n", "\n">>
         ELSE value

(***************************************************************************)
(* is_base64, decode_base64 and clean_list                                 *)
(*                                                                         *)
(* bytes are sequences of numbers in 0..255.  The characters of a str are  *)
(* ASCII characters or the lone surrogate a JSON file can spell as \ud800. *)
(***************************************************************************)
\* the ASCII characters by code point, the first being U+0000; a control
\* character other than \t, \n and \r is written \xhh
AsciiChars ==
    <<"\\x00", "\\x01", "\\x02", "\\x03", "\\x04", "\\x05", "\\x06", "\\x07",
      "\\x08", "\t", "\n", "\\x0b", "\\x0c", "\r", "\\x0e", "\\x0f",
      "\\x10", "\\x11", "\\x12", "\\x13", "\\x14", "\\x15", "\\x16", "\\x17",
      "\\x18", "\\x19", "\\x1a", "\\x1b", "\\x1c", "\\x1d", "\\x1e", "\\x1f",
      " ", "!", "\"", "#", "$", "%", "&", "'",
      "(", ")", "*", "+", ",", "-", ".", "/",
      "0", "1", "2", "3", "4", "5", "6", "7",
      "8", "9", ":", ";", "<", "=", ">", "?",
      "@", "A", "B", "C", "D", "E", "F", "G",
      "H", "I", "J", "K", "L", "M", "N", "O",
      "P", "Q", "R", "S", "T", "U", "V", "W",
      "X", "Y", "Z", "[", "\\", "]", "^", "_",
      "BACKQUOTE", "a", "b", "c", "d", "e", "f", "g",
      "h", "i", "j", "k", "l", "m", "n", "o",
      "p", "q", "r", "s", "t", "u", "v", "w",
      "x", "y", "z", "{", "|", "}", "~", "\\x7f">>

Surrogate == "SURROGATE"

\* a character that is not ASCII, as bytes.decode("utf-8") gives it
NonAscii == "NONASCII"

\* ord(c) of an ASCII character
CodePoint(c) == IndexIn(c, AsciiChars) - 1

\* str.encode(): UnicodeEncodeError for a lone surrogate, else the bytes
encode(s) ==
    [raised |-> \E i \in DOMAIN s : s[i] = Surrogate,
     bytes |-> [i \in DOMAIN s |-> IF s[i] = Surrogate THEN 0 ELSE CodePoint(s[i])]]

B64Chars ==
    <<"A", "B", "C", "D", "E", "F", "G", "H", "I", "J", "K", "L", "M", "N", "O", "P",
      "Q", "R", "S", "T", "U", "V", "W", "X", "Y", "Z", "a", "b", "c", "d", "e", "f",
      "g", "h", "i", "j", "k", "l", "m", "n", "o", "p", "q", "r", "s", "t", "u", "v",
      "w", "x", "y", "z", "0", "1", "2", "3", "4", "5", "6", "7", "8", "9", "+", "/">>

\* table_a2b_base64: the six bits of a byte of the alphabet, 64 for any other
B64Value(byte) ==
    IF byte < 128 /\ AsciiChars[byte + 1] \in Range(B64Chars)
    THEN IndexIn(AsciiChars[byte + 1], B64Chars) - 1
    ELSE 64

\* binascii.a2b_base64 as base64.b64decode calls it (not strict), from the
\* state quad_pos, leftchar, pads of its loop on: a byte outside the alphabet
\* is skipped, a pad that completes a quad ends the data, and data that end
\* within a quad raise binascii.Error
RECURSIVE a2b_base64(_, _, _, _)
a2b_base64(data, quad_pos, leftchar, pads) ==
    IF data = <<>> THEN [raised |-> quad_pos # 0, bytes |-> <<>>]
    ELSE LET this_ch == B64Value(Head(data)) IN
         IF Head(data) = CodePoint("=")
         THEN IF quad_pos >= 2 /\ quad_pos + pads + 1 >= 4
              THEN [raised |-> FALSE, bytes |-> <<>>]
              ELSE a2b_base64(Tail(data), quad_pos, leftchar,
                              IF quad_pos >= 2 THEN pads + 1 ELSE pads)
         ELSE IF this_ch = 64 THEN a2b_base64(Tail(data), quad_pos, leftchar, pads)
         ELSE IF quad_pos = 0 THEN a2b_base64(Tail(data), 1, this_ch, 0)
         ELSE LET byte == IF quad_pos = 1 THEN leftchar * 4 + this_ch \div 16
                          ELSE IF quad_pos = 2 THEN leftchar * 16 + this_ch \div 4
                          ELSE leftchar * 64 + this_ch
                  left == IF quad_pos = 1 THEN this_ch % 16
                          ELSE IF quad_pos = 2 THEN this_ch % 4
                          ELSE 0
                  rest == a2b_base64(Tail(data), (quad_pos + 1) % 4, left, 0)
              IN [raised |-> rest.raised, bytes |-> <<byte>> \o rest.bytes]

b64decode(data) == a2b_base64(data, 0, 0, 0)

\* bytes.decode("utf-8"): UnicodeDecodeError unless the bytes are well-formed
\* UTF-8
RECURSIVE decode_utf8(_)
decode_utf8(bytes) ==
    IF bytes = <<>> THEN [raised |-> FALSE, text |-> <<>>]
    ELSE LET first == Head(bytes)
             n == IF first < 128 THEN 1
                  ELSE IF first \in 194..223 THEN 2
                  ELSE IF first \in 224..239 THEN 3
                  ELSE IF first \in 240..244 THEN 4
                  ELSE 0
             lowest == IF first = 224 THEN 160 ELSE IF first = 240 THEN 144 ELSE 128
             highest == IF first = 237 THEN 159 ELSE IF first = 244 THEN 143 ELSE 191
         IN IF \/ n = 0
               \/ Len(bytes) < n
               \/ n >= 2 /\ bytes[2] \notin lowest..highest
               \/ \E i \in 3..n : bytes[i] \notin 128..191
            THEN [raised |-> TRUE, text |-> <<>>]
            ELSE LET rest == decode_utf8(SubSeq(bytes, n + 1, Len(bytes)))
                 IN [raised |-> rest.raised,
                     text |-> <<IF n = 1 THEN AsciiChars[first + 1] ELSE NonAscii>>
                              \o rest.text]

\* is_base64(s): the UnicodeEncodeError of s.encode() is not caught; the
\* binascii.Error of b64decode gives False
is_base64(s) ==
    IF encode(s).raised THEN [raised |-> TRUE, value |-> FALSE]
    ELSE LET decoded == b64decode(encode(s).bytes)
         IN [raised |-> FALSE,
             value |-> ~decoded.raised /\ decoded.bytes = encode(s).bytes]

\* decode_base64(data): ValueError when data is not ASCII, is not base64 or
\* does not decode to UTF-8
decode_base64(data) ==
    IF encode(data).raised THEN [raised |-> TRUE, value |-> <<>>]
    ELSE IF b64decode(encode(data).bytes).raised THEN [raised |-> TRUE, value |-> <<>>]
    ELSE LET decoded == decode_utf8(b64decode(encode(data).bytes).bytes)
         IN [raised |-> decoded.raised, value |-> decoded.text]

\* len(s) > 200
LongValueLimit == 200

ClickToExpand == <<"<", "d", "e", "t", "a", "i", "l", "s", ">", "<", "s", "u", "m", "m", "a", "r", "y", ">", "C", "l", "i", "c", "k", " ", "t", "o", " ", "e", "x", "p", "a", "n", "d", ".", ".", ".", "<", "/", "s", "u", "m", "m", "a", "r", "y", ">">>

DetailsPrefix == <<"<", "d", "e", "t", "a", "i", "l", "s">>

\* string(s) of clean_list(data, decode), and whether it raises
string(s, decode) ==
    IF decode /\ is_base64(s).raised THEN [raised |-> TRUE, value |-> <<>>]
    ELSE IF decode /\ is_base64(s).value /\ decode_base64(s).raised
    THEN [raised |-> TRUE, value |-> <<>>]
    ELSE LET decoded == IF decode /\ is_base64(s).value THEN decode_base64(s).value ELSE s
             formatted == format_value_for_markdown(decoded)
         IN [raised |-> FALSE,
             value |-> IF Len(formatted) > LongValueLimit
                          /\ ~StartsWith(formatted, DetailsPrefix)
                       THEN ClickToExpand \o formatted \o DetailsClose
                       ELSE formatted]

(***************************************************************************)
(* Setting instances and setting definitions                               *)
(*                                                                         *)
(* A setting instance is a dict; `keys` holds which of the four value      *)
(* fields it carries.  simpleSettingValue is the "value" of that dict,     *)
(* simpleSettingCollectionValue the "value"s of its items, choiceValue and *)
(* choiceChildren the "value" and "children" of choiceSettingValue, and    *)
(* groupSettingCollectionValue the "children" of each of its groups.       *)
(***************************************************************************)
BlankInstance(id) ==
    [settingDefinitionId |-> id, keys |-> {},
     simpleSettingValue |-> <<>>, simpleSettingCollectionValue |-> <<>>,
     choiceValue |-> <<>>, choiceChildren |-> <<>>,
     groupSettingCollectionValue |-> <<>>]

Simple(id, value) ==
    [BlankInstance(id) EXCEPT !.keys = {"simpleSettingValue"},
                              !.simpleSettingValue = value]

SimpleCollection(id, values) ==
    [BlankInstance(id) EXCEPT !.keys = {"simpleSettingCollectionValue"},
                              !.simpleSettingCollectionValue = values]

Choice(id, value, children) ==
    [BlankInstance(id) EXCEPT !.keys = {"choiceSettingValue"},
                              !.choiceValue = value,
                              !.choiceChildren = children]

GroupCollection(id, groups) ==
    [BlankInstance(id) EXCEPT !.keys = {"groupSettingCollectionValue"},
                              !.groupSettingCollectionValue = groups]

\* A definition is a dict with an "id" and the optional keys of `keys`; an
\* option is a dict with the optional keys of `keys`.
EmptyDefinition ==
    [id |-> <<>>, keys |-> {}, displayName |-> <<>>, description |-> <<>>,
     options |-> <<>>, categoryDisplayName |-> <<>>]

Option(value, displayName) ==
    [keys |-> {"value", "displayName"}, value |-> value, itemId |-> <<>>,
     displayName |-> displayName, name |-> <<>>]

(***************************************************************************)
(* extract_setting                                                         *)
(***************************************************************************)
NewlineChars == {"\r", "\n"}

\* re.sub(r'((\r\n|\r|\n){2,})', r'\r\n', description): every maximal run of
\* two or more line-break characters becomes one \r\n
RECURSIVE CollapseBlankLines(_)
CollapseBlankLines(s) ==
    IF s = <<>> THEN <<>>
    ELSE IF Len(s) >= 2 /\ s[1] \in NewlineChars /\ s[2] \in NewlineChars
         THEN LET n == CHOOSE k \in 2..Len(s) :
                          /\ \A j \in 1..k : s[j] \in NewlineChars
                          /\ (k = Len(s) \/ s[k + 1] \notin NewlineChars)
              IN <<"\r", "\n">> \o CollapseBlankLines(SubSeq(s, n + 1, Len(s)))
         ELSE <<s[1]>> \o CollapseBlankLines(Tail(s))

FormatDescription(definition) ==
    LET raw == IF "description" \in definition.keys THEN definition.description ELSE <<>>
        trimmed == RStripSet(CollapseBlankLines(raw), {" ", "\t"})
    IN IF Len(trimmed) > DescriptionLimit
       THEN DetailsExpandOpen \o trimmed \o DetailsClose
       ELSE trimmed

\* parent_definitions.get(id) or definitions_lookup.get(id, {})
ResolveDefinition(id, parent_definitions, definitions_lookup) ==
    IF id \in DOMAIN parent_definitions THEN parent_definitions[id]
    ELSE IF id \in DOMAIN definitions_lookup THEN definitions_lookup[id]
    ELSE EmptyDefinition

\* definition.get("displayName", _format_setting_name(setting_definition_id))
DisplayName(definition, id) ==
    IF "displayName" \in definition.keys THEN definition.displayName
    ELSE format_setting_name(id)

OptionMatches(option, value) ==
    \/ "value" \in option.keys /\ option.value = value
    \/ "itemId" \in option.keys /\ option.itemId = value

\* option.get("displayName") or option.get("name"), None being <<>>
OptionName(option) ==
    IF "displayName" \in option.keys /\ option.displayName # <<>>
    THEN option.displayName
    ELSE IF "name" \in option.keys THEN option.name ELSE <<>>

\* the loop over definition["options"], stopped at the first match
OptionDisplayName(definition, value) ==
    IF value # <<>> /\ "options" \in definition.keys
       /\ \E i \in DOMAIN definition.options : OptionMatches(definition.options[i], value)
    THEN LET first == CHOOSE i \in DOMAIN definition.options :
                          /\ OptionMatches(definition.options[i], value)
                          /\ \A j \in 1..(i - 1) : ~OptionMatches(definition.options[j], value)
         IN OptionName(definition.options[first])
    ELSE <<>>

SimpleRows(display_name, value, description) ==
    <<<<display_name,
        format_value_for_markdown(IF value # <<>> THEN value ELSE NotConfigured),
        description>>>>

\* the values of the items, the empty ones dropped
NonEmptyValues(collection) == SelectSeq(collection, LAMBDA v : v # <<>>)

SimpleCollectionRows(display_name, collection, description) ==
    IF collection # <<>>
    THEN LET values == NonEmptyValues(collection) IN
         IF values # <<>>
         THEN <<<<display_name,
                  format_value_for_markdown(
                      <<"\n", "\n">> \o Fence \o <<"\n">> \o Join(values, <<"\n">>)
                      \o <<"\n">> \o Fence \o <<"\n">>),
                  description>>>>
         ELSE <<<<display_name, format_value_for_markdown(NotConfigured), description>>>>
    ELSE <<<<display_name, NotConfigured, description>>>>

ChoiceValueShown(definition, value) ==
    LET option_display_name == OptionDisplayName(definition, value) IN
    format_value_for_markdown(
        IF option_display_name # <<>> THEN option_display_name
        ELSE IF value # <<>> THEN value ELSE NotConfigured)

\* mutant of ChoiceRows: the Row of the Choice after the Rows of its children
ChoiceRowsChildrenFirst(row, child_rows) == ConcatAll(child_rows) \o <<row>>

\* rows.append(own row), then rows.extend(...) for every child in order
ChoiceRows(row, child_rows) == <<row>> \o ConcatAll(child_rows)

\* mutant of GroupCollectionRows: no Row when there is no child
GroupCollectionRowsNoFallback(display_name, description, child_rows) ==
    ConcatAll(child_rows)

\* mutant of GroupCollectionRows: a Row for the container before its children
GroupCollectionRowsWithContainer(display_name, description, child_rows) ==
    <<<<display_name, CollectionValue, description>>>> \o ConcatAll(child_rows)

\* rows if rows else [[display_name, "Collection value", description]]
GroupCollectionRows(display_name, description, child_rows) ==
    LET rows == ConcatAll(child_rows) IN
    IF rows # <<>> THEN rows
    ELSE <<<<display_name, CollectionValue, description>>>>

\* the if/elif chain with the branches in the opposite order
VariantInReverse(keys) ==
    IF "groupSettingCollectionValue" \in keys THEN "groupSettingCollectionValue"
    ELSE IF "choiceSettingValue" \in keys THEN "choiceSettingValue"
    ELSE IF "simpleSettingCollectionValue" \in keys THEN "simpleSettingCollectionValue"
    ELSE IF "simpleSettingValue" \in keys THEN "simpleSettingValue"
    ELSE "none"

\* the branch of the if/elif chain that a setting instance with these value
\* fields takes
Variant(keys) ==
    IF "simpleSettingValue" \in keys THEN "simpleSettingValue"
    ELSE IF "simpleSettingCollectionValue" \in keys THEN "simpleSettingCollectionValue"
    ELSE IF "choiceSettingValue" \in keys THEN "choiceSettingValue"
    ELSE IF "groupSettingCollectionValue" \in keys THEN "groupSettingCollectionValue"
    ELSE "none"

RECURSIVE extract_setting(_, _, _)
extract_setting(setting_instance, parent_definitions, definitions_lookup) ==
    LET setting_definition_id == setting_instance.settingDefinitionId
        definition == ResolveDefinition(setting_definition_id, parent_definitions,
                                        definitions_lookup)
        display_name == DisplayName(definition, setting_definition_id)
        description == FormatDescription(definition)
        variant == Variant(setting_instance.keys)
        Walk(children) ==
            [i \in DOMAIN children |->
                extract_setting(children[i], parent_definitions, definitions_lookup)]
    IN IF variant = "simpleSettingValue"
       THEN SimpleRows(display_name, setting_instance.simpleSettingValue, description)
       ELSE IF variant = "simpleSettingCollectionValue"
       THEN SimpleCollectionRows(display_name,
                                 setting_instance.simpleSettingCollectionValue,
                                 description)
       ELSE IF variant = "choiceSettingValue"
       THEN ChoiceRows(<<display_name,
                         ChoiceValueShown(definition, setting_instance.choiceValue),
                         description>>,
                       Walk(setting_instance.choiceChildren))
       ELSE IF variant = "groupSettingCollectionValue"
       THEN GroupCollectionRows(display_name, description,
                Walk(ConcatAll(setting_instance.groupSettingCollectionValue)))
       ELSE <<<<display_name, NotConfigured, description>>>>

\* _extract_setting_rows_for_category
extract_setting_rows_for_category(setting_instance, parent_definitions, definitions_lookup) ==
    extract_setting(setting_instance, parent_definitions, definitions_lookup)

(***************************************************************************)
(* _create_settings_tables                                                 *)
(*                                                                         *)
(* A setting is a dict with the optional keys "settingInstance" and        *)
(* "settingDefinitions"; category_map is a dict in insertion order, a      *)
(* sequence of [category, rows].                                           *)
(***************************************************************************)
Setting(setting_instance, setting_definitions) ==
    [keys |-> {"settingInstance", "settingDefinitions"},
     settingInstance |-> setting_instance,
     settingDefinitions |-> setting_definitions]

SettingWithoutDefinitions(setting_instance) ==
    [keys |-> {"settingInstance"},
     settingInstance |-> setting_instance,
     settingDefinitions |-> <<>>]

SettingWithoutInstance(setting_definitions) ==
    [keys |-> {"settingDefinitions"},
     settingInstance |-> BlankInstance(<<>>),
     settingDefinitions |-> setting_definitions]

\* setting.get("settingDefinitions", [])
SettingDefinitionsOf(setting) ==
    IF "settingDefinitions" \in setting.keys THEN setting.settingDefinitions ELSE <<>>

\* {d["id"]: d for d in definitions}: the last definition of an id wins
DefinitionsById(definitions) ==
    [id \in {definitions[i].id : i \in DOMAIN definitions} |->
        definitions[CHOOSE i \in DOMAIN definitions :
                        /\ definitions[i].id = id
                        /\ \A j \in (i + 1)..Len(definitions) : definitions[j].id # id]]

\* build_definitions_lookup
build_definitions_lookup(settings) ==
    DefinitionsById(ConcatAll([i \in DOMAIN settings |-> SettingDefinitionsOf(settings[i])]))

\* setting.get("settingDefinitions", [{}])[0] raises IndexError on an empty list
MainDefRaises(setting) ==
    "settingDefinitions" \in setting.keys /\ setting.settingDefinitions = <<>>

MainDef(setting) ==
    IF "settingDefinitions" \in setting.keys THEN setting.settingDefinitions[1]
    ELSE EmptyDefinition

\* main_def.get("categoryDisplayName", "Other Settings")
CategoryOf(setting) ==
    IF "categoryDisplayName" \in MainDef(setting).keys
    THEN MainDef(setting).categoryDisplayName
    ELSE OtherSettings

CategoryKeys(category_map) == [i \in DOMAIN category_map |-> category_map[i].category]

\* the rows one setting adds to its category
SettingRows(setting, definitions_lookup) ==
    IF "settingInstance" \in setting.keys
    THEN extract_setting_rows_for_category(setting.settingInstance,
             DefinitionsById(SettingDefinitionsOf(setting)), definitions_lookup)
    ELSE <<>>

\* one turn of the loop "for setting in settings"
\* mutant of AddSetting: the rows of the setting are put before the rows
\* the category already has
AddSettingRowsFirst(category_map, setting, definitions_lookup) ==
    LET category == CategoryOf(setting)
        opened == IF category \in Range(CategoryKeys(category_map)) THEN category_map
                  ELSE Append(category_map, [category |-> category, rows |-> <<>>])
    IN [i \in DOMAIN opened |->
           IF opened[i].category = category
           THEN [opened[i] EXCEPT !.rows = SettingRows(setting, definitions_lookup) \o @]
           ELSE opened[i]]

AddSetting(category_map, setting, definitions_lookup) ==
    LET category == CategoryOf(setting)
        opened == IF category \in Range(CategoryKeys(category_map)) THEN category_map
                  ELSE Append(category_map, [category |-> category, rows |-> <<>>])
    IN [i \in DOMAIN opened |->
           IF opened[i].category = category
           THEN [opened[i] EXCEPT !.rows = @ \o SettingRows(setting, definitions_lookup)]
           ELSE opened[i]]

RECURSIVE GroupSettings(_, _, _)
GroupSettings(category_map, settings, definitions_lookup) ==
    IF settings = <<>> THEN category_map
    ELSE GroupSettings(AddSetting(category_map, Head(settings), definitions_lookup),
                       Tail(settings), definitions_lookup)

\* sorted(keys, key=lambda x: x.lower()): a stable sort, equal keys keep
\* their order
\* mutant of SortKey: the categories compared as they are written
SortKeyCaseSensitive(category) == category

SortKey(category) == Lower(category)

RECURSIVE InsertSorted(_, _)
InsertSorted(sorted, x) ==
    IF sorted = <<>> THEN <<x>>
    ELSE IF StrLess(SortKey(x), SortKey(Head(sorted))) THEN <<x>> \o sorted
    ELSE <<Head(sorted)>> \o InsertSorted(Tail(sorted), x)

RECURSIVE SortCategories(_)
SortCategories(keys) ==
    IF keys = <<>> THEN <<>>
    ELSE InsertSorted(SortCategories(SubSeq(keys, 1, Len(keys) - 1)), keys[Len(keys)])

CategoryRowOpen == <<"<", "t", "r", " ", "s", "t", "y", "l", "e", "=", "'", "b", "a", "c", "k", "g", "r", "o", "u", "n", "d", "-", "c", "o", "l", "o", "r", ":", "#", "e", "0", "e", "0", "e", "0", ";", "f", "o", "n", "t", "-", "w", "e", "i", "g", "h", "t", ":", "b", "o", "l", "d", ";", "'", ">", "<", "t", "d", " ", "c", "o", "l", "s", "p", "a", "n", "=", "'", "3", "'", ">">>

CategoryRowClose == <<"<", "/", "t", "d", ">", "<", "/", "t", "r", ">">>

\* the visually distinctive row of a category, a list of one cell
CategoryRow(category) == <<CategoryRowOpen \o category \o CategoryRowClose>>

RowsOfCategory(category_map, category) ==
    category_map[CHOOSE i \in DOMAIN category_map : category_map[i].category = category].rows

\* table_rows: for every category in sorted order, its row and its rows
BuildTableRows(category_map) ==
    LET sorted_categories == SortCategories(CategoryKeys(category_map)) IN
    ConcatAll([i \in DOMAIN sorted_categories |->
        <<CategoryRow(sorted_categories[i])>>
        \o RowsOfCategory(category_map, sorted_categories[i])])

TableOpen == <<"<", "t", "a", "b", "l", "e", ">", "\n", "<", "t", "h", "e", "a", "d", ">", "<", "t", "r", ">">>

TableHeadClose == <<"<", "/", "t", "r", ">", "<", "/", "t", "h", "e", "a", "d", ">", "\n", "<", "t", "b", "o", "d", "y", ">", "\n">>

TableClose == <<"<", "/", "t", "b", "o", "d", "y", ">", "\n", "<", "/", "t", "a", "b", "l", "e", ">">>

Th(h) == <<"<", "t", "h", ">">> \o h \o <<"<", "/", "t", "h", ">">>

Td(cell) == <<"<", "t", "d", ">">> \o cell \o <<"<", "/", "t", "d", ">">>

HtmlRow(row) ==
    <<"<", "t", "r", ">">> \o ConcatAll([i \in DOMAIN row |-> Td(row[i])])
    \o <<"<", "/", "t", "r", ">", "\n">>

\* len(row) == 1 and row[0].startswith("<tr")
IsRawHtmlRow(row) == Len(row) = 1 /\ StartsWith(row[1], <<"<", "t", "r">>)

custom_html_table(headers, table_rows) ==
    TableOpen \o ConcatAll([i \in DOMAIN headers |-> Th(headers[i])]) \o TableHeadClose
    \o ConcatAll([i \in DOMAIN table_rows |->
           IF IsRawHtmlRow(table_rows[i]) THEN table_rows[i][1]
           ELSE HtmlRow(table_rows[i])])
    \o TableClose

html_table(headers, table_rows) ==
    TableOpen \o ConcatAll([i \in DOMAIN headers |-> Th(headers[i])]) \o TableHeadClose
    \o ConcatAll([i \in DOMAIN table_rows |-> HtmlRow(table_rows[i])])
    \o TableClose

SettingsHeaders ==
    <<<<"S", "e", "t", "t", "i", "n", "g">>, <<"V", "a", "l", "u", "e">>,
      <<"D", "e", "s", "c", "r", "i", "p", "t", "i", "o", "n">>>>

ConfigurationName == <<"C", "o", "n", "f", "i", "g", "u", "r", "a", "t", "i", "o", "n">>

\* _create_settings_tables: what it returns (tables), whether it raises, and
\* its locals category_map and table_rows
create_settings_tables(settings) ==
    IF settings = <<>>
    THEN [raised |-> FALSE, category_map |-> <<>>, table_rows |-> <<>>, tables |-> <<>>]
    ELSE IF \E i \in DOMAIN settings : MainDefRaises(settings[i])
    THEN [raised |-> TRUE, category_map |-> <<>>, table_rows |-> <<>>, tables |-> <<>>]
    ELSE LET category_map == GroupSettings(<<>>, settings, build_definitions_lookup(settings))
             table_rows == BuildTableRows(category_map)
         IN [raised |-> FALSE,
             category_map |-> category_map,
             table_rows |-> table_rows,
             tables |-> <<[name |-> ConfigurationName,
                           table |-> custom_html_table(SettingsHeaders, table_rows)]>>]

(***************************************************************************)
(* Inputs of the walker: the setting-instance trees of at most MaxNodes    *)
(* nodes.  The settingDefinitionId of a node is its address in the tree:   *)
(* "s" for the root, the address of a Choice followed by the digit k for   *)
(* its k-th child, the address of a GroupCollection followed by the g-th   *)
(* letter and the digit j for the j-th child of its g-th group.  The       *)
(* addresses of one tree are distinct, and dictionary order on them is     *)
(* document order.                                                         *)
(***************************************************************************)
MaxNodes == 3

DigitSeq == <<"1", "2", "3", "4", "5", "6", "7", "8", "9">>

SimpleValues == {<<>>, <<"A">>, <<"B">>}

CollectionValues == {<<>>, <<<<>>>>, <<<<"A">>, <<"B">>>>}

ChoiceValues == {<<>>, <<"3", "0">>}

LeavesAt(addr) ==
    {Simple(addr, v) : v \in SimpleValues}
    \cup {SimpleCollection(addr, c) : c \in CollectionValues}
    \cup {BlankInstance(addr)}
    \cup {Choice(addr, v, <<>>) : v \in ChoiceValues}
    \cup {GroupCollection(addr, g) : g \in {<<>>, <<<<>>>>}}

RECURSIVE TreesAt(_, _), ForestsAt(_, _, _), GroupsAt(_, _, _)
\* the trees of exactly n nodes whose root has address addr
TreesAt(n, addr) ==
    IF n = 1 THEN LeavesAt(addr)
    ELSE {Choice(addr, v, f) : v \in ChoiceValues, f \in ForestsAt(n - 1, addr, 1)}
         \cup {GroupCollection(addr, g) : g \in GroupsAt(n - 1, addr, 1)}

\* the sequences of trees of n nodes in all, the first one being child k
ForestsAt(n, addr, k) ==
    IF n = 0 THEN {<<>>}
    ELSE UNION {{<<t>> \o rest : t \in TreesAt(m, Append(addr, DigitSeq[k])),
                                 rest \in ForestsAt(n - m, addr, k + 1)}
                : m \in 1..n}

\* the sequences of non-empty groups of n nodes in all, the first one being group g
GroupsAt(n, addr, g) ==
    IF n = 0 THEN {<<>>}
    ELSE UNION {{<<f>> \o rest : f \in ForestsAt(m, Append(addr, Lowers[g]), 1),
                                 rest \in GroupsAt(n - m, addr, g + 1)}
                : m \in 1..n}

RootAddress == <<"s">>

AddressedTrees == UNION {TreesAt(n, RootAddress) : n \in 1..MaxNodes}

\* Single nodes whose ids exercise _format_setting_name
IdXYZSetting == <<"x", "_", "y", "_", "z", "_", "s", "e", "t", "t", "i", "n", "g">>

IdPolicyTimeout == <<"p", "o", "l", "i", "c", "y", "_", "t", "i", "m", "e", "o", "u", "t", "_", "v", "2">>

IdSixParts == <<"a", "_", "b", "_", "c", "_", "d", "_", "e", "_", "f">>

IdCamel == <<"d", "e", "v", "i", "c", "e", "_", "v", "e", "n", "d", "o", "r", "_", "m", "s", "f", "t", "_", "p", "o", "l", "i", "c", "y", "_", "c", "o", "n", "f", "i", "g", "_", "f", "o", "o", "B", "a", "r">>

IdInactivity == <<"u", "s", "e", "r", "_", "M", "a", "c", "h", "i", "n", "e", "I", "n", "a", "c", "t", "i", "v", "i", "t", "y", "L", "i", "m", "i", "t", "_", "x">>

NamedIds == {IdXYZSetting, IdPolicyTimeout, IdSixParts, IdCamel, IdInactivity, <<>>}

NamedLeaves == {Simple(id, v) : id \in NamedIds, v \in SimpleValues}

WalkInputs == AddressedTrees \cup NamedLeaves

(***************************************************************************)
(* Inputs of _create_settings_tables: at most MaxSettings settings, with   *)
(* and without definitions, with the root resolved or only a child, with   *)
(* categories that differ by case only                                     *)
(***************************************************************************)
MaxSettings == 2

IdD1 == <<"d", "1">>

IdD2 == <<"d", "2">>

NameTimeout == <<"T", "i", "m", "e", "o", "u", "t">>

NameRetry == <<"R", "e", "t", "r", "y">>

CatSec == <<"S", "e", "c">>

CatSecLower == <<"s", "e", "c">>

CatApp == <<"a", "p", "p">>

Categories == {CatSec, CatSecLower, CatApp}

\* a definition as a backup with categories would hold it
DefinitionWithCategory(id, displayName, category) ==
    [id |-> id, keys |-> {"displayName", "description", "categoryDisplayName"},
     displayName |-> displayName, description |-> <<>>, options |-> <<>>,
     categoryDisplayName |-> category]

\* a definition as _enrich_settings_with_definitions writes it
DefinitionWithoutCategory(id, displayName, description) ==
    [id |-> id, keys |-> {"displayName", "description"},
     displayName |-> displayName, description |-> description, options |-> <<>>,
     categoryDisplayName |-> <<>>]

LeafD1 == Simple(IdD1, <<"A">>)

ChoiceD1D2 == Choice(IdD1, <<"3", "0">>, <<Simple(IdD2, <<"B">>)>>)

TableSettings ==
    {SettingWithoutDefinitions(LeafD1), Setting(LeafD1, <<>>)}
    \cup {Setting(LeafD1, <<DefinitionWithCategory(IdD1, NameTimeout, c)>>) : c \in Categories}
    \cup {Setting(LeafD1, <<DefinitionWithoutCategory(IdD1, NameTimeout, <<>>)>>)}
    \cup {Setting(ChoiceD1D2, <<DefinitionWithCategory(IdD1, NameTimeout, CatSec),
                               DefinitionWithCategory(IdD2, NameRetry, CatApp)>>)}
    \cup {Setting(ChoiceD1D2, <<DefinitionWithCategory(IdD2, NameRetry, CatApp)>>)}
    \cup {Setting(ChoiceD1D2, <<DefinitionWithoutCategory(IdD2, NameRetry, <<>>)>>)}
    \cup {SettingWithoutInstance(<<DefinitionWithCategory(IdD1, NameTimeout, CatSec)>>)}

RECURSIVE SeqsUpTo(_, _)
\* the sequences over S of length at most n
SeqsUpTo(S, n) ==
    IF n = 0 THEN {<<>>}
    ELSE SeqsUpTo(S, n - 1)
         \cup {Append(q, x) : q \in {r \in SeqsUpTo(S, n - 1) : Len(r) = n - 1}, x \in S}

TablesInputs == SeqsUpTo(TableSettings, MaxSettings)

(***************************************************************************)
(* SettingsCatalogBackupModule._enrich_settings_with_definitions           *)
(***************************************************************************)
\* the definitions of the service: the response of
\* GET configurationSettings/{id} for the three ids of the model; the
\* definition of the first has an option for the value "30"
IdRetryEnabled == <<"r", "e", "t", "r", "y", "_", "e", "n", "a", "b", "l", "e", "d">>

NameRetryEnabled == <<"R", "e", "t", "r", "y", " ", "E", "n", "a", "b", "l", "e", "d">>

NameXYZ == <<"X", "Y", "Z">>

ThirtySeconds == <<"3", "0", " ", "s", "e", "c", "o", "n", "d", "s">>

Thirty == <<"3", "0">>

BackupIds == {IdPolicyTimeout, IdRetryEnabled, IdXYZSetting}

\* a response of GET configurationSettings/{id}
RemoteDefinition(id, displayName, options) ==
    [id |-> id, keys |-> {"id", "displayName", "description", "options"},
     displayName |-> displayName, description |-> <<>>, options |-> options,
     categoryDisplayName |-> <<>>]

\* what the service answers for an id
ConfigurationSettings(id) ==
    CASE id = IdPolicyTimeout ->
             RemoteDefinition(id, NameTimeout, <<Option(Thirty, ThirtySeconds)>>)
      [] id = IdRetryEnabled -> RemoteDefinition(id, NameRetryEnabled, <<>>)
      [] OTHER -> RemoteDefinition(id, NameXYZ, <<>>)

\* collect_definition_ids that does not look into the value containers
collect_id_of_root(instance) == {instance.settingDefinitionId}

RECURSIVE collect_definition_ids(_)
\* the ids of the instance and of the instances below it; only
\* choiceSettingValue and groupSettingCollectionValue hold instances
collect_definition_ids(instance) ==
    {instance.settingDefinitionId}
    \cup (IF "choiceSettingValue" \in instance.keys
          THEN UNION {collect_definition_ids(instance.choiceChildren[i]) :
                          i \in DOMAIN instance.choiceChildren}
          ELSE {})
    \cup (IF "groupSettingCollectionValue" \in instance.keys
          THEN UNION {UNION {collect_definition_ids(instance.groupSettingCollectionValue[g][j]) :
                                 j \in DOMAIN instance.groupSettingCollectionValue[g]} :
                          g \in DOMAIN instance.groupSettingCollectionValue}
          ELSE {})

\* definition_ids: the set of the ids of all settings of one policy
definition_ids(settings) ==
    UNION {collect_definition_ids(settings[i].settingInstance) :
               i \in {k \in DOMAIN settings : "settingInstance" \in settings[k].keys}}

\* definition_map: of a response with an "id", the displayName and the
\* description and nothing else
definition_map(definition_responses) ==
    [id \in {r.id : r \in {x \in definition_responses : "id" \in x.keys}} |->
        LET definition == CHOOSE r \in definition_responses : "id" \in r.keys /\ r.id = id IN
        [displayName |-> IF "displayName" \in definition.keys
                         THEN definition.displayName ELSE <<>>,
         description |-> IF "description" \in definition.keys
                         THEN definition.description ELSE <<>>]]

RECURSIVE PreorderIds(_)
\* the ids in the order build_setting_definitions visits the instances
PreorderIds(instance) ==
    <<instance.settingDefinitionId>>
    \o (IF "choiceSettingValue" \in instance.keys
        THEN ConcatAll([i \in DOMAIN instance.choiceChildren |->
                 PreorderIds(instance.choiceChildren[i])])
        ELSE <<>>)
    \o (IF "groupSettingCollectionValue" \in instance.keys
        THEN ConcatAll([g \in DOMAIN instance.groupSettingCollectionValue |->
                 ConcatAll([j \in DOMAIN instance.groupSettingCollectionValue[g] |->
                     PreorderIds(instance.groupSettingCollectionValue[g][j])])])
        ELSE <<>>)

\* an id is taken the first time it is visited (the set `seen`)
FirstOccurrences(ids) ==
    ConcatAll([i \in DOMAIN ids |->
        IF \E j \in 1..(i - 1) : ids[j] = ids[i] THEN <<>> ELSE <<ids[i]>>])

\* a definition as _enrich_settings_with_definitions writes it
EnrichedDefinition(id, displayName, description) ==
    [id |-> id, keys |-> {"displayName", "description"},
     displayName |-> displayName, description |-> description, options |-> <<>>,
     categoryDisplayName |-> <<>>]

build_setting_definitions(instance, map) ==
    LET ids == FirstOccurrences(SelectSeq(PreorderIds(instance),
                   LAMBDA id : id # <<>> /\ id \in DOMAIN map))
    IN [k \in DOMAIN ids |->
           EnrichedDefinition(ids[k], map[ids[k]].displayName, map[ids[k]].description)]

\* the ids whose GET configurationSettings/{id} returns a definition: a
\* request that raises is logged and the loop goes on
\* mutant of FetchedIds: a request that raises ends the loop and no
\* definition is kept
FetchedIdsAbortOnFailure(ids, failed) == IF ids \cap failed = {} THEN ids ELSE {}

FetchedIds(ids, failed) == ids \ failed

\* _enrich_settings_with_definitions(settings), failed being the ids whose
\* request raises: the settings it returns, the ids it
\* requests and the ids it logs a warning for
enrich_settings_with_definitions(policy_settings, failed) ==
    IF policy_settings = <<>> \/ definition_ids(policy_settings) = {}
    THEN [settings |-> policy_settings, requested |-> {}, warned |-> {}]
    ELSE LET ids == definition_ids(policy_settings)
             definition_responses == {ConfigurationSettings(id) :
                                         id \in FetchedIds(ids, failed)}
             map == definition_map(definition_responses)
         IN [settings |->
                [i \in DOMAIN policy_settings |->
                    IF "settingInstance" \in policy_settings[i].keys
                    THEN [policy_settings[i] EXCEPT
                             !.keys = @ \cup {"settingDefinitions"},
                             !.settingDefinitions =
                                 build_setting_definitions(policy_settings[i].settingInstance, map)]
                    ELSE policy_settings[i]],
             requested |-> ids,
             warned |-> ids \cap failed]

(***************************************************************************)
(* SettingsCatalogBackupModule.main: the policies and the files            *)
(*                                                                         *)
(* A policy is a dict with "name" and "technologies" and the optional keys *)
(* "settings" and "assignments".                                           *)
(***************************************************************************)
Policy(name, technologies, settings) ==
    [keys |-> {"name", "technologies", "settings"}, name |-> name,
     technologies |-> technologies, settings |-> settings, assignments |-> <<>>]

\* a backup file that holds the assignments of the policy
PolicyWithAssignments(name, technologies, settings, assignments) ==
    [keys |-> {"name", "technologies", "settings", "assignments"}, name |-> name,
     technologies |-> technologies, settings |-> settings, assignments |-> assignments]

\* an item of graph_data["value"]: the list request returns no settings
PolicyWithoutSettings(name, technologies) ==
    [keys |-> {"name", "technologies"}, name |-> name,
     technologies |-> technologies, settings |-> <<>>, assignments |-> <<>>]

\* str(item['technologies']).rsplit(',', 1)[-1]
LastTechnology(technologies) ==
    LET parts == Split(technologies, ",") IN parts[Len(parts)]

\* f"{item['name']}_{...}"
preset_filename(item) == item.name \o <<"_">> \o LastTechnology(item.technologies)

JsonExtension == <<".", "j", "s", "o", "n">>

\* the file process_data saves the item to
BackupFileName(item) == preset_filename(item) \o JsonExtension

(***************************************************************************)
(* assignment_table                                                        *)
(*                                                                         *)
(* An assignment is a dict with the optional keys "intent" and "target";   *)
(* its target is a dict with the optional keys "@odata.type", "groupName", *)
(* "deviceAndAppManagementAssignmentFilterType" (filterType) and           *)
(* "deviceAndAppManagementAssignmentFilterId" (filterId).                  *)
(***************************************************************************)
AssignmentTo(target) == [keys |-> {"target"}, intent |-> <<>>, target |-> target]

AssignmentWithIntent(intent, target) ==
    [keys |-> {"intent", "target"}, intent |-> intent, target |-> target]

TargetOf(type, filterType, filterId) ==
    [keys |-> {"@odata.type", "filterType", "filterId"}, odata_type |-> type,
     groupName |-> <<>>, filterType |-> filterType, filterId |-> filterId]

\* the backup adds the name of the group to the target of a group
NamedTargetOf(type, groupName, filterType, filterId) ==
    [keys |-> {"@odata.type", "groupName", "filterType", "filterId"}, odata_type |-> type,
     groupName |-> groupName, filterType |-> filterType, filterId |-> filterId]

TargetWithoutFilterId(type, filterType) ==
    [keys |-> {"@odata.type", "filterType"}, odata_type |-> type,
     groupName |-> <<>>, filterType |-> filterType, filterId |-> <<>>]

GraphPrefix == <<"#", "m", "i", "c", "r", "o", "s", "o", "f", "t", ".", "g", "r", "a", "p", "h", ".">>

AllDevicesTarget == GraphPrefix \o <<"a", "l", "l", "D", "e", "v", "i", "c", "e", "s", "A", "s", "s", "i", "g", "n", "m", "e", "n", "t", "T", "a", "r", "g", "e", "t">>

AllLicensedUsersTarget == GraphPrefix \o <<"a", "l", "l", "L", "i", "c", "e", "n", "s", "e", "d", "U", "s", "e", "r", "s", "A", "s", "s", "i", "g", "n", "m", "e", "n", "t", "T", "a", "r", "g", "e", "t">>

GroupTarget == GraphPrefix \o <<"g", "r", "o", "u", "p", "A", "s", "s", "i", "g", "n", "m", "e", "n", "t", "T", "a", "r", "g", "e", "t">>

ExclusionGroupTarget == GraphPrefix \o <<"e", "x", "c", "l", "u", "s", "i", "o", "n", "G", "r", "o", "u", "p", "A", "s", "s", "i", "g", "n", "m", "e", "n", "t", "T", "a", "r", "g", "e", "t">>

Include == <<"I", "n", "c", "l", "u", "d", "e">>

Exclude == <<"E", "x", "c", "l", "u", "d", "e">>

Apply == <<"a", "p", "p", "l", "y">>

AssignmentHeaders ==
    <<<<"i", "n", "t", "e", "n", "t">>, <<"t", "a", "r", "g", "e", "t">>, <<"f", "i", "l", "t", "e", "r", " ", "t", "y", "p", "e">>, <<"f", "i", "l", "t", "e", "r", " ", "n", "a", "m", "e">>>>

\* the lookups of one turn of the loop that raise KeyError
AssignmentRaises(assignment) ==
    \/ "target" \notin assignment.keys
    \/ "@odata.type" \notin assignment.target.keys
    \/ "filterType" \notin assignment.target.keys
    \/ "filterId" \notin assignment.target.keys

\* the local target at the append
AssignmentTarget(assignment) ==
    LET type == assignment.target.odata_type IN
    IF "groupName" \in assignment.target.keys THEN assignment.target.groupName
    ELSE IF type = AllLicensedUsersTarget THEN <<"A", "l", "l", " ", "U", "s", "e", "r", "s">>
    ELSE IF type = AllDevicesTarget THEN <<"A", "l", "l", " ", "D", "e", "v", "i", "c", "e", "s">>
    ELSE <<>>

\* the local intent at the append
AssignmentIntent(assignment) ==
    LET type == assignment.target.odata_type
        preset == IF type \in {AllDevicesTarget, AllLicensedUsersTarget}
                  THEN Include ELSE <<>>
    IN IF "intent" \in assignment.keys /\ assignment.intent \notin {Apply, <<>>}
       THEN assignment.intent
       ELSE IF type = ExclusionGroupTarget THEN Exclude
       ELSE IF type = GroupTarget THEN Include
       ELSE preset

AssignmentRow(assignment) ==
    <<AssignmentIntent(assignment), AssignmentTarget(assignment),
      assignment.target.filterType, assignment.target.filterId>>

\* sorted is sorted by x[0] in reverse order; row is put after the rows whose
\* x[0] is not less than its own
RECURSIVE InsertReverse(_, _)
InsertReverse(sorted, row) ==
    IF sorted = <<>> THEN <<row>>
    ELSE IF StrLess(Head(sorted)[1], row[1]) THEN <<row>> \o sorted
    ELSE <<Head(sorted)>> \o InsertReverse(Tail(sorted), row)

\* list.sort(key=lambda x: x[0], reverse=True), which is stable
RECURSIVE SortReverse(_)
SortReverse(assignment_list) ==
    IF assignment_list = <<>> THEN <<>>
    ELSE InsertReverse(SortReverse(SubSeq(assignment_list, 1, Len(assignment_list) - 1)),
                       assignment_list[Len(assignment_list)])

\* assignment_list after the first n turns of the loop: the row is appended
\* and the list is sorted in every turn
RECURSIVE AssignmentList(_, _)
AssignmentList(assignments, n) ==
    IF n = 0 THEN <<>>
    ELSE SortReverse(Append(AssignmentList(assignments, n - 1),
                            AssignmentRow(assignments[n])))

\* assignment_table(data): whether it raises, the table it returns and its
\* local assignment_list
assignment_table(data) ==
    IF "assignments" \notin data.keys \/ data.assignments = <<>>
    THEN [raised |-> FALSE, table |-> <<>>, assignment_list |-> <<>>]
    ELSE IF \E i \in DOMAIN data.assignments : AssignmentRaises(data.assignments[i])
    THEN [raised |-> TRUE, table |-> <<>>, assignment_list |-> <<>>]
    ELSE LET assignment_list == AssignmentList(data.assignments, Len(data.assignments))
         IN [raised |-> FALSE,
             table |-> html_table(AssignmentHeaders, assignment_list),
             assignment_list |-> assignment_list]

(***************************************************************************)
(* document_settings_catalog                                               *)
(*                                                                         *)
(* The file system is a function from the paths that exist to their        *)
(* content; the content of a Markdown file is the sequence of the strings  *)
(* written to it.                                                          *)
(***************************************************************************)
\* open(path, "w").close(), and md_file(outpath): the file exists and is empty
md_file(files_on_disk, path) ==
    [p \in DOMAIN files_on_disk \cup {path} |->
        IF p = path THEN <<>> ELSE files_on_disk[p]]

\* with open(path, "w") in place of open(path, "a"): what the file held is lost
open_truncating(files_on_disk, path, written) ==
    [p \in DOMAIN files_on_disk \cup {path} |->
        IF p = path THEN written ELSE files_on_disk[p]]

\* with open(path, "a") as md: md.write(...) for every string of written
open_append(files_on_disk, path, written) ==
    [p \in DOMAIN files_on_disk \cup {path} |->
        IF p = path
        THEN (IF p \in DOMAIN files_on_disk THEN files_on_disk[p] ELSE <<>>) \o written
        ELSE files_on_disk[p]]

Header == <<"S", "e", "t", "t", "i", "n", "g", "s", " ", "C", "a", "t", "a", "l", "o", "g">>

\* the outpath argument of the single-file mode
OutPath == <<"i", "n", "d", "e", "x", ".", "m", "d">>

MdExtension == <<".", "m", "d">>

\* os.path.join(configpath, f"{header}.md"), relative to configpath
TypePath == Header \o MdExtension

DocsDir == <<"d", "o", "c", "s", "/">>

\* "## " + header + "\n"
TypeHeading == <<"#", "#", " ">> \o Header \o <<"\n">>

\* the characters re.sub(r'[<>:"/\\|?*]', "_", policy_name) replaces
UnsafeChars == {"<", ">", ":", "\"", "/", "\\", "|", "?", "*"}

safe_config_name(policy_name) ==
    [i \in DOMAIN policy_name |->
        IF policy_name[i] \in UnsafeChars THEN "_" ELSE policy_name[i]]

\* os.path.join(f"{configpath}/docs", f"{safe_config_name}.md")
ConfigOutPath(policy_name) == DocsDir \o safe_config_name(policy_name) \o MdExtension

UnknownPolicy == <<"U", "n", "k", "n", "o", "w", "n", " ", "P", "o", "l", "i", "c", "y">>

\* repo_data.get("name", "Unknown Policy")
PolicyNameOf(repo_data) ==
    IF "name" \in repo_data.keys THEN repo_data.name ELSE UnknownPolicy

\* repo_data.get("settings", [])
SettingsOf(repo_data) ==
    IF "settings" \in repo_data.keys THEN repo_data.settings ELSE <<>>

\* sorted(files): the names compared as they are
RECURSIVE sorted_case_sensitive(_)
sorted_case_sensitive(names) ==
    IF names = {} THEN <<>>
    ELSE LET first == CHOOSE x \in names : \A y \in names \ {x} : StrLess(x, y)
         IN <<first>> \o sorted_case_sensitive(names \ {first})

\* sorted(files, key=str.casefold), for names that differ when case-folded
RECURSIVE SortedFiles(_)
SortedFiles(names) ==
    IF names = {} THEN <<>>
    ELSE LET first == CHOOSE x \in names :
                          \A y \in names \ {x} : StrLess(Lower(x), Lower(y))
         IN <<first>> \o SortedFiles(names \ {first})

BasicsHeaders == <<<<"S", "e", "t", "t", "i", "n", "g">>, <<"V", "a", "l", "u", "e">>>>

\* basics_table_data of a policy without description, platforms, scope
\* tags and dates
BasicsTableData(repo_data) ==
    <<<<<<"N", "a", "m", "e">>, PolicyNameOf(repo_data)>>,
      <<<<"P", "r", "o", "f", "i", "l", "e", " ", "t", "y", "p", "e">>, <<"S", "e", "t", "t", "i", "n", "g", "s", " ", "c", "a", "t", "a", "l", "o", "g">>>>,
      <<<<"P", "l", "a", "t", "f", "o", "r", "m", " ", "s", "u", "p", "p", "o", "r", "t", "e", "d">>, <<>>>>,
      <<<<"T", "e", "c", "h", "n", "o", "l", "o", "g", "i", "e", "s">>,
        IF "technologies" \in repo_data.keys THEN repo_data.technologies ELSE <<>>>>,
      <<<<"S", "c", "o", "p", "e", " ", "t", "a", "g", "s">>, <<"D", "e", "f", "a", "u", "l", "t">>>>>>

\* _write_clean_table
write_clean_table(headers, data) ==
    IF data = <<>> THEN <<>> ELSE html_table(headers, data)

\* top_header: "# name" in a file of its own, "### name" otherwise
TopHeader(repo_data, per_config) ==
    (IF per_config THEN <<"#", " ">> ELSE <<"#", "#", "#", " ">>) \o PolicyNameOf(repo_data)

\* the strings one policy writes to its target: the header, the assignments
\* when the table is not empty, the basics and every settings table
SectionWrites(repo_data, per_config, settings_tables) ==
    <<TopHeader(repo_data, per_config) \o <<"\n", "\n">>>>
    \o (IF assignment_table(repo_data).table = <<>> THEN <<>>
        ELSE <<<<"#", "#", "#", "#", " ", "A", "s", "s", "i", "g", "n", "m", "e", "n", "t", "s", "\n">>,
               assignment_table(repo_data).table \o <<"\n", "\n">>>>)
    \o
    <<<<"#", "#", "#", "#", " ", "B", "a", "s", "i", "c", "s", "\n">>,
      write_clean_table(BasicsHeaders, BasicsTableData(repo_data)) \o <<"\n", "\n">>>>
    \o ConcatAll([i \in DOMAIN settings_tables |->
           <<<<"#", "#", "#", "#", " ">> \o settings_tables[i].name \o <<"\n">>,
             settings_tables[i].table \o <<"\n", "\n">>>>])

\* get_docs_md_files: the Markdown files of docs/, in the order glob yields
\* them, which is any order
DocsFiles(files_on_disk) ==
    {p \in DOMAIN files_on_disk : StartsWith(p, DocsDir) /\ EndsWith(p, MdExtension)}

Orderings(S) == {q \in [1..Cardinality(S) -> S] : Range(q) = S}

\* the strings split_per_config_index_md writes for the files in this order
IndexWrites(md_files) ==
    <<<<"#", " ">> \o Header \o <<" ", "\n", "\n">>, <<"#", "#", " ", "F", "i", "l", "e", " ", "i", "n", "d", "e", "x", " ", "\n", "\n">>>>
    \o ConcatAll([i \in DOMAIN md_files |->
           LET file == <<".", "/">> \o md_files[i]
               parts == Split(file, "/")
           IN <<<<"[">>, parts[Len(parts)], <<"]", "(">>, Replace(file, " ", <<"%", "2", "0">>),
                <<")", " ", "\n", "\n">>>>])

\* split_per_config_index_md(configpath, header)
split_per_config_index_md(files_on_disk, md_files) ==
    open_append(md_file(files_on_disk, TypePath), TypePath, IndexWrites(md_files))

(***************************************************************************)
(* Inputs of the backup: the service holds at most MaxPolicies policies    *)
(* whose settings use three definition ids; the definition of the first    *)
(* has an option for the value "30".                                       *)
(***************************************************************************)
MaxPolicies == 2

MaxFailing == 1

TimeoutChoice == Choice(IdPolicyTimeout, Thirty, <<Simple(IdRetryEnabled, <<"t", "r", "u", "e">>)>>)

RetryLeaf == Simple(IdRetryEnabled, <<"t", "r", "u", "e">>)

XYZGroups ==
    GroupCollection(IdXYZSetting,
        <<<<Simple(IdRetryEnabled, <<"A">>)>>, <<Simple(IdRetryEnabled, <<"B">>)>>>>)

XYZLeaf == Simple(IdXYZSetting, <<"A">>)

\* what /settings returns for one policy
SettingsResponses ==
    {<<>>,
     <<SettingWithoutDefinitions(TimeoutChoice)>>,
     <<SettingWithoutDefinitions(RetryLeaf)>>,
     <<SettingWithoutDefinitions(XYZGroups)>>,
     <<SettingWithoutDefinitions(XYZLeaf)>>,
     <<SettingWithoutDefinitions(TimeoutChoice), SettingWithoutDefinitions(XYZLeaf)>>}

PolicyNames == <<<<"a">>, <<"B">>, <<"c">>, <<"D">>>>

Mdm == <<"m", "d", "m">>

\* the items of graph_data["value"] for n policies
GraphItems(n) == [i \in 1..n |-> PolicyWithoutSettings(PolicyNames[i], Mdm)]

FailingSets == {F \in SUBSET BackupIds : Cardinality(F) <= MaxFailing}

(***************************************************************************)
(* Inputs of the documentation: a directory of at most MaxPolicies backup  *)
(* files, and a file system that holds the single-file document and, when  *)
(* stale, documents of an earlier run.                                     *)
(***************************************************************************)
FileNames == <<<<"a", ".", "j", "s", "o", "n">>, <<"B", ".", "j", "s", "o", "n">>, <<"c", ".", "j", "s", "o", "n">>, <<"D", ".", "j", "s", "o", "n">>>>

PolA == <<"P", "o", "l", "A">>

PolB == <<"P", "o", "l", "B">>

SecTimeout == DefinitionWithCategory(IdD1, NameTimeout, CatSec)

FilterNone == <<"n", "o", "n", "e">>

FilterId == <<"0">>

GroupG == <<"G">>

\* the policies of the backup files: with and without assignments, with the
\* malformed records that raise (an empty settingDefinitions list, an
\* assignment whose target has no filter id) and that do not (a setting
\* without settingInstance, no "settings" key)
DocPolicies ==
    {Policy(PolA, Mdm, <<Setting(LeafD1, <<SecTimeout>>)>>),
     PolicyWithAssignments(PolB, Mdm, <<Setting(LeafD1, <<SecTimeout>>)>>,
         <<AssignmentTo(NamedTargetOf(ExclusionGroupTarget, GroupG, FilterNone, FilterId)),
           AssignmentTo(TargetOf(AllDevicesTarget, FilterNone, FilterId))>>),
     PolicyWithAssignments(PolA, Mdm, <<Setting(LeafD1, <<SecTimeout>>)>>,
         <<AssignmentTo(TargetWithoutFilterId(AllDevicesTarget, FilterNone))>>),
     Policy(PolB, Mdm,
            <<Setting(ChoiceD1D2, <<SecTimeout, DefinitionWithCategory(IdD2, NameRetry, CatApp)>>),
              Setting(LeafD1, <<DefinitionWithCategory(IdD1, NameTimeout, CatApp)>>),
              Setting(LeafD1, <<SecTimeout>>)>>),
     Policy(<<"A", "/", "B">>, Mdm, <<SettingWithoutInstance(<<SecTimeout>>)>>),
     Policy(<<"A", ":", "B">>, Mdm, <<Setting(LeafD1, <<>>)>>),
     PolicyWithoutSettings(<<"A", ":", "B">>, Mdm)}

Directories ==
    UNION {[{FileNames[i] : i \in 1..n} -> DocPolicies] : n \in 0..MaxPolicies}

PriorContent == <<<<"#", " ", "I", "n", "t", "u", "n", "e", "\n">>>>

StaleContent == <<<<"s", "t", "a", "l", "e">>>>

FreshDisk == [p \in {OutPath} |-> PriorContent]

StaleDisk ==
    [p \in {OutPath, TypePath, ConfigOutPath(PolA)} |->
        IF p = OutPath THEN PriorContent ELSE StaleContent]

(***************************************************************************)
(* Archive                                                                 *)
(*                                                                         *)
(* What is below self.path is a record: files maps the location of every   *)
(* file, [root, file], to its content, and dirs is the set of directories  *)
(* that exist.  root is the sequence of directory names from self.path to  *)
(* the directory of the file.  No audit data were fetched (append_id and   *)
(* audit are off), so archive_file commits nothing.                        *)
(***************************************************************************)
EmptyTree == [files |-> <<>>, dirs |-> {}]

exclude ==
    {"Management Intents", "archive", "__archive__", "Assignment Report",
     "Autopilot Devices", "Activation Lock Bypass Codes"}

\* self.date_tag, the time the Archive was made
date_tag == "date_tag"

\* os.path.join(self.path, "__archive__", self.date_tag)
archive_path == <<"__archive__", date_tag>>

\* os.path.join(self.path, "Management Intents")
mgmt_path == <<"Management Intents">>

JsonType == <<"j", "s", "o", "n">>

YamlType == <<"y", "a", "m", "l">>

Dot(extension) == <<".">> \o extension

\* file.endswith((".yaml", ".json"))
IsBackupFile(file) == EndsWith(file, Dot(YamlType)) \/ EndsWith(file, Dot(JsonType))

IsPrefix(p, s) == Len(p) <= Len(s) /\ SubSeq(s, 1, Len(p)) = p

\* the files os.walk(top) lists when the directories named in pruned are
\* removed from dirs on the way down
Walked(fs, top, pruned) ==
    {loc \in DOMAIN fs.files :
        /\ IsPrefix(top, loc.root)
        /\ \A i \in (Len(top) + 1)..Len(loc.root) : loc.root[i] \notin pruned}

\* the length of the longest common prefix of two roots
RECURSIVE CommonLen(_, _)
CommonLen(r, q) ==
    IF r = <<>> \/ q = <<>> \/ Head(r) # Head(q) THEN 0
    ELSE 1 + CommonLen(Tail(r), Tail(q))

\* os.walk(topdown=True) lists the files of a directory before those of its
\* sub-directories and one sub-tree after the other; the order of the
\* entries of one directory is the order of os.scandir, which is arbitrary
IsWalkOrder(order) ==
    /\ \A i, j \in DOMAIN order :
           (order[i].root # order[j].root /\ IsPrefix(order[i].root, order[j].root))
               => i < j
    /\ \A i, j, k \in DOMAIN order :
           (i < j /\ j < k)
               => CommonLen(order[i].root, order[k].root)
                      <= CommonLen(order[i].root, order[j].root)

WalkOrders(locs) ==
    {order \in [1..Cardinality(locs) -> locs] :
        Range(order) = locs /\ IsWalkOrder(order)}

\* shutil.move(src, dst): dst is replaced when it is there already
archive_file(fs, file, root) ==
    LET src == [root |-> root, file |-> file]
        dst == [root |-> archive_path, file |-> file]
    IN [files |-> [loc \in (DOMAIN fs.files \ {src}) \cup {dst} |->
                      IF loc = dst THEN fs.files[src] ELSE fs.files[loc]],
        dirs |-> fs.dirs \cup {<<"__archive__">>, archive_path}]

\* str.replace(old, new) for a non-empty old: the occurrences are taken from
\* the left and do not overlap
RECURSIVE ReplaceAll(_, _, _)
ReplaceAll(s, old, new) ==
    IF s = <<>> THEN <<>>
    ELSE IF StartsWith(s, old)
    THEN new \o ReplaceAll(SubSeq(s, Len(old) + 1, Len(s)), old, new)
    ELSE <<Head(s)>> \o ReplaceAll(Tail(s), old, new)

\* file.replace(f".{self.filetype}", "") not in created_files
NotCreated(file, created, type) == ReplaceAll(file, Dot(type), <<>>) \notin created

\* the first loop without the exception for .json files in self.path
FirstLoopFilesWithTopLevel(fs, created, type) ==
    {loc \in Walked(fs, <<>>, exclude) :
        IsBackupFile(loc.file) /\ NotCreated(loc.file, created, type)}

\* the files the first loop hands to archive_file
FirstLoopFiles(fs, created, type) ==
    {loc \in Walked(fs, <<>>, exclude) :
        /\ IsBackupFile(loc.file)
        /\ ~(loc.root = <<>> /\ EndsWith(loc.file, Dot(JsonType)))
        /\ NotCreated(loc.file, created, type)}

\* the files the loop over "Management Intents" hands to archive_file
MgmtLoopFiles(fs, created, type) ==
    IF mgmt_path \notin fs.dirs THEN {}
    ELSE {loc \in Walked(fs, mgmt_path, {}) :
             IsBackupFile(loc.file) /\ NotCreated(loc.file, created, type)}

\* archive_file for the first n files of order
RECURSIVE ArchiveAll(_, _, _)
ArchiveAll(fs, order, n) ==
    IF n = 0 THEN fs
    ELSE archive_file(ArchiveAll(fs, order, n - 1), order[n].file, order[n].root)

\* move_to_archive that makes __archive__ only when a file is archived
move_to_archive_lazily(fs, first, mgmt) ==
    ArchiveAll(ArchiveAll(fs, first, Len(first)), mgmt, Len(mgmt))

\* move_to_archive(created_files) when os.walk lists the files in the orders
\* first and mgmt
move_to_archive(fs, first, mgmt) ==
    LET made == [fs EXCEPT !.dirs = @ \cup {<<"__archive__">>}]
        after_first == ArchiveAll(made, first, Len(first))
    IN ArchiveAll(after_first, mgmt, Len(mgmt))

(***************************************************************************)
(* update (Entra Group Settings)                                           *)
(*                                                                         *)
(* A group setting is a dict with "id", "displayName" and "values";        *)
(* values maps the names of the template to their values.                  *)
(***************************************************************************)
GroupSetting(id, displayName, values) ==
    [id |-> id, displayName |-> displayName, values |-> values]

\* DeepDiff(t1, t2, ignore_order=True).get("values_changed", {}): the names
\* both have with different values
values_changed(t1, t2) == {name \in DOMAIN t1 \cap DOMAIN t2 : t1[name] # t2[name]}

Min(a, b) == IF a <= b THEN a ELSE b

\* the PATCH is made whatever report is
PatchesEvenInReport(diff, is_report) == diff # {}

\* if diff and report is False
Patches(diff, is_report) == diff # {} /\ is_report = FALSE

\* makeapirequestPatch(BASE_ENDPOINT + "/" + repo_setting["id"], jdata=json.dumps(repo_setting))
PatchRequest(repo_setting) == [id |-> repo_setting.id, jdata |-> repo_setting]

\* DiffSummary(data=diff, name=repo_setting["displayName"], type="Group Settings")
DiffSummary(data, name) == [data |-> data, name |-> name, type |-> "Group Settings"]

\* the first n turns of the loop over zip(repo_data["value"], entra_data["value"])
RECURSIVE UpdateTurns(_, _, _, _)
UpdateTurns(repo, entra, is_report, n) ==
    IF n = 0 THEN [patches |-> <<>>, diff_summary |-> <<>>]
    ELSE LET done == UpdateTurns(repo, entra, is_report, n - 1)
             repo_setting == repo[n]
             group_setting == entra[n]
             diff == values_changed(group_setting.values, repo_setting.values)
         IN IF group_setting.id # repo_setting.id THEN done
            ELSE [patches |-> IF Patches(diff, is_report)
                              THEN Append(done.patches, PatchRequest(repo_setting))
                              ELSE done.patches,
                  diff_summary |-> Append(done.diff_summary,
                                          DiffSummary(diff, repo_setting.displayName))]

\* update(path, token, report): found says that glob found the file of the
\* group settings and check_file accepted it
update(found, repo, entra, is_report) ==
    IF ~found \/ entra = <<>> THEN [patches |-> <<>>, diff_summary |-> <<>>]
    ELSE UpdateTurns(repo, entra, is_report, Min(Len(repo), Len(entra)))

(***************************************************************************)
(* ApplicationsBackupModule.main                                           *)
(*                                                                         *)
(* An application is a dict with "@odata.type", "displayName" and, for the *)
(* types that have them, "vppTokenAppleId", "displayVersion" and           *)
(* "productVersion".  No application has script rules.                     *)
(***************************************************************************)
App(type, displayName, vppTokenAppleId, displayVersion, productVersion) ==
    [odata_type |-> type, displayName |-> displayName,
     vppTokenAppleId |-> vppTokenAppleId, displayVersion |-> displayVersion,
     productVersion |-> productVersion]

\* platform_mapping, in the order of its items()
platform_mapping ==
    <<<<<<"i", "o", "s">>, <<"i", "O", "S">>>>,
      <<<<"m", "a", "c", "o", "s">>, <<"m", "a", "c", "O", "S">>>>,
      <<<<"a", "n", "d", "r", "o", "i", "d">>, <<"A", "n", "d", "r", "o", "i", "d">>>>,
      <<<<"w", "i", "n", "d", "o", "w", "s">>, <<"W", "i", "n", "d", "o", "w", "s">>>>,
      <<<<"m", "i", "c", "r", "o", "s", "o", "f", "t">>, <<"W", "i", "n", "d", "o", "w", "s">>>>,
      <<<<"w", "i", "n", "3", "2">>, <<"W", "i", "n", "d", "o", "w", "s">>>>,
      <<<<"o", "f", "f", "i", "c", "e">>, <<"O", "f", "f", "i", "c", "e", " ", "S", "u", "i", "t", "e">>>>,
      <<<<"w", "e", "b", "A", "p", "p">>, <<"W", "e", "b", " ", "A", "p", "p">>>>>>

\* str(None) in the f-string of the path
NoPlatform == <<"N", "o", "n", "e">>

\* the value of the first item whose key is in app_type.lower()
RECURSIVE PlatformFrom(_, _)
PlatformFrom(mapping, app_type_lower) ==
    IF mapping = <<>> THEN NoPlatform
    ELSE IF Contains(app_type_lower, Head(mapping)[1]) THEN Head(mapping)[2]
    ELSE PlatformFrom(Tail(mapping), app_type_lower)

platform_of(app_type) == PlatformFrom(platform_mapping, Lower(app_type))

IosVppApp == GraphPrefix \o <<"i", "o", "s", "V", "p", "p", "A", "p", "p">>

MacOsVppApp == GraphPrefix \o <<"m", "a", "c", "O", "s", "V", "p", "p", "A", "p", "p">>

Win32LobApp == GraphPrefix \o <<"w", "i", "n", "3", "2", "L", "o", "b", "A", "p", "p">>

WindowsMobileMSI == GraphPrefix \o <<"w", "i", "n", "d", "o", "w", "s", "M", "o", "b", "i", "l", "e", "M", "S", "I">>

\* app["displayName"] + "_" + app_type + suffix
generate_app_name(app, app_type, suffix) == app.displayName \o <<"_">> \o app_type \o suffix

\* the local app_name
app_name_of(app) ==
    IF app.odata_type = IosVppApp
    THEN generate_app_name(app, <<"i", "O", "S", "V", "p", "p", "A", "p", "p">>,
                           <<"_">> \o Split(app.vppTokenAppleId, "@")[1])
    ELSE IF app.odata_type = MacOsVppApp
    THEN generate_app_name(app, <<"m", "a", "c", "O", "S", "V", "p", "p", "A", "p", "p">>,
                           <<"_">> \o Split(app.vppTokenAppleId, "@")[1])
    ELSE IF app.odata_type = Win32LobApp
    THEN generate_app_name(app, <<"W", "i", "n", "3", "2">>,
                           IF app.displayVersion = <<>> THEN <<"_", "W", "i", "n", "3", "2">>
                           ELSE <<"_">> \o Replace(app.displayVersion, ".", <<"_">>))
    ELSE IF app.odata_type = WindowsMobileMSI
    THEN generate_app_name(app, <<"W", "i", "n", "M", "S", "I">>,
                           <<"_">> \o Replace(app.productVersion, ".", <<"_">>))
    ELSE generate_app_name(app, Split(app.odata_type, ".")[3], <<>>)

\* self.path of ApplicationsBackupModule
ApplicationsPath == <<"A", "p", "p", "l", "i", "c", "a", "t", "i", "o", "n", "s", "/">>

\* what process_data is called with for app: path and self.preset_filename
ProcessData(app) ==
    [path |-> ApplicationsPath \o platform_of(app.odata_type) \o <<"/">>,
     preset_filename |-> app_name_of(app)]

\* main(): None when the request for the applications raised
main_of_applications(request_raised, graph_value) ==
    IF request_raised THEN [returned_none |-> TRUE, process_data |-> <<>>]
    ELSE [returned_none |-> FALSE,
          process_data |-> [i \in DOMAIN graph_value |-> ProcessData(graph_value[i])]]

(***************************************************************************)
(* State                                                                   *)
(***************************************************************************)
VARIABLES
    walk_pc,            \* "start" before extract_setting has run, "done" after
    setting_instance,   \* the root handed to _extract_setting_rows_for_category
    rows,               \* the rows it returned
    tables_pc,          \* "start" before _create_settings_tables has run, "done" after
    settings,           \* the settings handed to _create_settings_tables
    tables_result,      \* what it returned or raised, with its locals
    directory,          \* the backup files of configpath: file name -> policy
    doc_pc,             \* document_settings_catalog: "start", "loop", "done"
    split,              \* its argument split
    split_per_config,   \* its argument split_per_config
    files,              \* its local files, the sorted file names
    file_i,             \* the index in files of the file the loop is at
    disk,               \* the Markdown files: path -> the strings written
    documented,         \* per file processed, what _create_settings_tables gave
    run,                \* the number of the call of document_settings_catalog
    previous,           \* the Markdown files as the call before this one left them
    io_faults,          \* whether a write to a target may raise OSError in this run
    assign_pc,          \* "start" before assignment_table has run, "done" after
    assignment_data,    \* the "assignments" of the data handed to assignment_table
    assignment_result,  \* what it returned or raised, with its local assignment_list
    format_pc,          \* "start" before clean_list has run, "done" after
    format_input,       \* the string of the list handed to clean_list
    format_decode,      \* its argument decode
    format_result,      \* what it returned or raised
    backup_pc,          \* main: "start", "loop", "done", "failed" (returned None)
    graph_data,         \* the items of graph_data["value"]
    policy_responses,   \* the settings of each item, as /settings returned them
    failing,            \* the ids whose GET configurationSettings/{id} raises
    item_i,             \* the index of the item the loop is at
    requests,           \* per id, the GET configurationSettings/{id} made
    warnings,           \* per id, the warnings logged
    archive_pc,         \* "start" before Archive.move_to_archive has run, "done" after
    tree,               \* the files and directories below self.path
    created_files,      \* its argument created_files
    filetype,           \* self.filetype
    archived,           \* the files and directories below self.path afterwards
    update_pc,          \* "start" before update has run, "done" after
    config_file,        \* whether glob found the file and check_file accepted it
    repo_settings,      \* repo_data["value"], the settings of the repository file
    group_settings,     \* entra_data["value"], the settings Entra returned
    report,             \* its argument report
    patches,            \* the PATCH requests made: the id of the URL and the body
    diff_summary,       \* what it returned
    apps_pc,            \* "start" before ApplicationsBackupModule.main has run, "done" after
    apps,               \* the applications of graph_data["value"]
    app_results         \* per application, the path and preset_filename process_data got

walk_vars == <<walk_pc, setting_instance, rows>>

tables_vars == <<tables_pc, settings, tables_result>>

doc_vars ==
    <<doc_pc, split, split_per_config, files, file_i, disk, documented, run, previous,
      io_faults>>

backup_vars ==
    <<backup_pc, graph_data, policy_responses, failing, item_i, requests, warnings>>

assign_vars == <<assign_pc, assignment_data, assignment_result>>

format_vars == <<format_pc, format_input, format_decode, format_result>>

archive_vars == <<archive_pc, tree, created_files, filetype, archived>>

update_vars ==
    <<update_pc, config_file, repo_settings, group_settings, report, patches,
      diff_summary>>

apps_vars == <<apps_pc, apps, app_results>>

vars ==
    <<walk_vars, tables_vars, directory, doc_vars, backup_vars, assign_vars, format_vars,
      archive_vars, update_vars, apps_vars>>

\* no definition is known: parent_definitions = {} and definitions_lookup = {}
NoDefinitions == <<>>

NoResult == [raised |-> FALSE, category_map |-> <<>>, table_rows |-> <<>>, tables |-> <<>>]

NoCount == [id \in BackupIds |-> 0]

WalkIdle ==
    /\ walk_pc = "idle"
    /\ setting_instance = BlankInstance(<<>>)
    /\ rows = <<>>

TablesIdle ==
    /\ tables_pc = "idle"
    /\ settings = <<>>
    /\ tables_result = NoResult

\* document_settings_catalog has not been called
DocNotStarted ==
    /\ split = FALSE
    /\ split_per_config = FALSE
    /\ files = <<>>
    /\ file_i = 0
    /\ documented = <<>>
    /\ run = 1
    /\ previous = <<>>
    /\ io_faults = FALSE

DocIdle ==
    /\ doc_pc = "idle"
    /\ DocNotStarted
    /\ disk = <<>>

NoTable == [raised |-> FALSE, table |-> <<>>, assignment_list |-> <<>>]

AssignIdle ==
    /\ assign_pc = "idle"
    /\ assignment_data = <<>>
    /\ assignment_result = NoTable

NoValue == [raised |-> FALSE, value |-> <<>>]

FormatIdle ==
    /\ format_pc = "idle"
    /\ format_input = <<>>
    /\ format_decode = FALSE
    /\ format_result = NoValue

BackupIdle ==
    /\ backup_pc = "idle"
    /\ graph_data = <<>>
    /\ policy_responses = <<>>
    /\ failing = {}
    /\ item_i = 0
    /\ requests = NoCount
    /\ warnings = NoCount

ArchiveIdle ==
    /\ archive_pc = "idle"
    /\ tree = EmptyTree
    /\ created_files = {}
    /\ filetype = <<>>
    /\ archived = EmptyTree

UpdateIdle ==
    /\ update_pc = "idle"
    /\ config_file = FALSE
    /\ repo_settings = <<>>
    /\ group_settings = <<>>
    /\ report = FALSE
    /\ patches = <<>>
    /\ diff_summary = <<>>

AppsIdle ==
    /\ apps_pc = "idle"
    /\ apps = <<>>
    /\ app_results = <<>>

(***************************************************************************)
(* SpecWalk: _extract_setting_rows_for_category on one tree                *)
(***************************************************************************)
WalkInit ==
    /\ walk_pc = "start"
    /\ setting_instance \in WalkInputs
    /\ rows = <<>>
    /\ TablesIdle
    /\ directory = <<>>
    /\ DocIdle
    /\ BackupIdle
    /\ AssignIdle
    /\ FormatIdle
    /\ ArchiveIdle
    /\ UpdateIdle
    /\ AppsIdle

\* rows = _extract_setting_rows_for_category(setting_instance, {}, {})
Walk ==
    /\ walk_pc = "start"
    /\ rows' = extract_setting_rows_for_category(setting_instance, NoDefinitions,
                                                 NoDefinitions)
    /\ walk_pc' = "done"
    /\ UNCHANGED <<archive_vars, update_vars, apps_vars>>
    /\ UNCHANGED <<setting_instance, tables_vars, directory, doc_vars, backup_vars,
                   assign_vars, format_vars>>

SpecWalk == WalkInit /\ [][Walk]_vars

(***************************************************************************)
(* SpecTables: _create_settings_tables on the settings of one policy       *)
(***************************************************************************)
TablesInit ==
    /\ tables_pc = "start"
    /\ settings \in TablesInputs
    /\ tables_result = NoResult
    /\ WalkIdle
    /\ directory = <<>>
    /\ DocIdle
    /\ BackupIdle
    /\ AssignIdle
    /\ FormatIdle
    /\ ArchiveIdle
    /\ UpdateIdle
    /\ AppsIdle

\* settings_tables = _create_settings_tables(settings)
CreateSettingsTables ==
    /\ tables_pc = "start"
    /\ tables_result' = create_settings_tables(settings)
    /\ tables_pc' = "done"
    /\ UNCHANGED <<archive_vars, update_vars, apps_vars>>
    /\ UNCHANGED <<settings, walk_vars, directory, doc_vars, backup_vars,
                   assign_vars, format_vars>>

SpecTables == TablesInit /\ [][CreateSettingsTables]_vars

(***************************************************************************)
(* SpecDoc: document_settings_catalog on a directory of backup files       *)
(***************************************************************************)
DocInit ==
    /\ doc_pc = "start"
    /\ directory \in Directories
    /\ disk \in {FreshDisk, StaleDisk}
    /\ DocNotStarted
    /\ WalkIdle
    /\ TablesIdle
    /\ BackupIdle
    /\ AssignIdle
    /\ FormatIdle
    /\ ArchiveIdle
    /\ UpdateIdle
    /\ AppsIdle

\* document_settings_catalog up to its loop: the file of the type is emptied
\* in split mode, the heading of the type is appended unless every policy
\* gets a file of its own, the backup files are listed and sorted.  The
\* heading is written outside the try of the loop: an OSError of that write
\* leaves the function ("raised").
DocStart ==
    /\ doc_pc = "start"
    /\ backup_pc \notin {"start", "loop"}
    /\ \E s \in (IF run = 1 THEN BOOLEAN ELSE {split}),
          per_config \in (IF run = 1 THEN BOOLEAN ELSE {split_per_config}),
          heading_written \in (IF io_faults THEN BOOLEAN ELSE {TRUE}) :
        LET by_type == s /\ ~per_config
            outpath == IF by_type THEN TypePath ELSE OutPath
            emptied == IF by_type THEN md_file(disk, outpath) ELSE disk
            oserror == ~per_config /\ ~heading_written
        IN /\ split' = s
           /\ split_per_config' = per_config
           /\ disk' = IF per_config \/ oserror THEN emptied
                      ELSE open_append(emptied, outpath, <<TypeHeading>>)
           /\ files' = IF oserror THEN <<>> ELSE SortedFiles(DOMAIN directory)
           /\ file_i' = IF oserror THEN 0 ELSE 1
           /\ doc_pc' = IF oserror THEN "raised"
                        ELSE IF DOMAIN directory = {} THEN "done" ELSE "loop"
    /\ UNCHANGED <<archive_vars, update_vars, apps_vars>>
    /\ UNCHANGED <<documented, run, previous, io_faults, directory, walk_vars,
                   tables_vars, backup_vars,
                   assign_vars, format_vars>>

\* the except of a turn prints the exception and ends the function
after_turn_abort(exception, i, n) ==
    IF exception # "None" \/ i = n THEN "done" ELSE "loop"

\* where document_settings_catalog is after the i-th of n turns: the except of
\* the turn prints the exception, and the for statement takes the next file
after_turn(exception, i, n) ==
    IF i = n THEN "done" ELSE "loop"

\* one turn of "for filename in files": the policy is loaded, its tables are
\* built and its section is appended to its target.  An exception is caught
\* by the except of the turn and printed, and the loop goes on: the KeyError
\* of assignment_table and the IndexError of _create_settings_tables are
\* raised before the target is opened, the OSError of a write after the
\* first `kept` strings of the section were written.
DocFile ==
    /\ doc_pc = "loop"
    /\ LET filename == files[file_i]
           repo_data == directory[filename]
           assignments == assignment_table(repo_data)
           settings_tables == IF assignments.raised THEN NoResult
                              ELSE create_settings_tables(SettingsOf(repo_data))
           by_type == split /\ ~split_per_config
           target_md == IF split_per_config THEN ConfigOutPath(PolicyNameOf(repo_data))
                        ELSE IF by_type THEN TypePath ELSE OutPath
           written == SectionWrites(repo_data, split_per_config, settings_tables.tables)
       IN \E kept \in (IF io_faults /\ ~assignments.raised /\ ~settings_tables.raised
                       THEN 0..Len(written) ELSE {Len(written)}) :
          LET exception == IF assignments.raised THEN "KeyError"
                           ELSE IF settings_tables.raised THEN "IndexError"
                           ELSE IF kept < Len(written) THEN "OSError"
                           ELSE "None"
          IN
          /\ documented' = Append(documented,
                 [filename |-> filename, target_md |-> target_md,
                  settings_tables |-> settings_tables, exception |-> exception])
          /\ doc_pc' = after_turn(exception, file_i, Len(files))
          /\ IF assignments.raised \/ settings_tables.raised THEN disk' = disk
             ELSE IF split_per_config
             THEN \E md_files \in Orderings(DocsFiles(md_file(disk, target_md))) :
                      disk' = open_append(
                          split_per_config_index_md(md_file(disk, target_md), md_files),
                          target_md, SubSeq(written, 1, kept))
             ELSE disk' = open_append(disk, target_md, SubSeq(written, 1, kept))
    /\ file_i' = file_i + 1
    /\ UNCHANGED <<archive_vars, update_vars, apps_vars>>
    /\ UNCHANGED <<split, split_per_config, files, run, previous, io_faults, directory,
                   walk_vars, tables_vars, backup_vars,
                   assign_vars, format_vars>>

SpecDoc == DocInit /\ [][DocStart \/ DocFile]_vars

(***************************************************************************)
(* SpecRerun: document_settings_catalog is called again, with the same     *)
(* arguments, on the same backup files and the Markdown files it left      *)
(***************************************************************************)
MaxRuns == 2

\* the caller calls document_settings_catalog again
DocAgain ==
    /\ doc_pc = "done"
    /\ run < MaxRuns
    /\ run' = run + 1
    /\ previous' = disk
    /\ doc_pc' = "start"
    /\ files' = <<>>
    /\ file_i' = 0
    /\ documented' = <<>>
    /\ UNCHANGED <<archive_vars, update_vars, apps_vars>>
    /\ UNCHANGED <<split, split_per_config, disk, io_faults, directory, walk_vars,
                   tables_vars, backup_vars,
                   assign_vars, format_vars>>

RerunInit ==
    /\ doc_pc = "start"
    /\ directory \in Directories
    /\ disk = FreshDisk
    /\ DocNotStarted
    /\ WalkIdle
    /\ TablesIdle
    /\ BackupIdle
    /\ AssignIdle
    /\ FormatIdle
    /\ ArchiveIdle
    /\ UpdateIdle
    /\ AppsIdle

SpecRerun == RerunInit /\ [][DocStart \/ DocFile \/ DocAgain]_vars

(***************************************************************************)
(* SpecDocIO: document_settings_catalog when writes to a target may raise  *)
(* OSError (the path is unwritable, the device is full)                    *)
(***************************************************************************)
\* a policy that renders, one whose assignment raises KeyError and one whose
\* empty settingDefinitions raises IndexError
IOPolicies ==
    {Policy(PolA, Mdm, <<Setting(LeafD1, <<SecTimeout>>)>>),
     PolicyWithAssignments(PolA, Mdm, <<Setting(LeafD1, <<SecTimeout>>)>>,
         <<AssignmentTo(TargetWithoutFilterId(AllDevicesTarget, FilterNone))>>),
     Policy(<<"A", ":", "B">>, Mdm, <<Setting(LeafD1, <<>>)>>)}

IODirectories ==
    UNION {[{FileNames[i] : i \in 1..n} -> IOPolicies] : n \in 0..MaxPolicies}

IOInit ==
    /\ doc_pc = "start"
    /\ directory \in IODirectories
    /\ disk = FreshDisk
    /\ io_faults = TRUE
    /\ split = FALSE
    /\ split_per_config = FALSE
    /\ files = <<>>
    /\ file_i = 0
    /\ documented = <<>>
    /\ run = 1
    /\ previous = <<>>
    /\ WalkIdle
    /\ TablesIdle
    /\ BackupIdle
    /\ AssignIdle
    /\ FormatIdle
    /\ ArchiveIdle
    /\ UpdateIdle
    /\ AppsIdle

SpecDocIO == IOInit /\ [][DocStart \/ DocFile]_vars

(***************************************************************************)
(* SpecAssign: assignment_table on the assignments of one policy           *)
(***************************************************************************)
MaxAssignments == 2

\* the target type of an assignment to a Configuration Manager collection
CollectionTarget == GraphPrefix \o <<"c", "o", "n", "f", "i", "g", "u", "r", "a", "t", "i", "o", "n", "M", "a", "n", "a", "g", "e", "r", "C", "o", "l", "l", "e", "c", "t", "i", "o", "n", "A", "s", "s", "i", "g", "n", "m", "e", "n", "t", "T", "a", "r", "g", "e", "t">>

Required == <<"r", "e", "q", "u", "i", "r", "e", "d">>

AssignmentTargets ==
    {TargetOf(AllDevicesTarget, FilterNone, FilterId),
     TargetOf(AllLicensedUsersTarget, FilterNone, FilterId),
     NamedTargetOf(GroupTarget, GroupG, FilterNone, FilterId),
     NamedTargetOf(ExclusionGroupTarget, GroupG, FilterNone, FilterId),
     TargetOf(CollectionTarget, FilterNone, FilterId)}

\* without intent, and with the intents "", "apply" and "required"
AssignmentInputs ==
    {AssignmentTo(target) : target \in AssignmentTargets}
    \cup {AssignmentWithIntent(intent, target) :
             intent \in {<<>>, Apply, Required}, target \in AssignmentTargets}

AssignInit ==
    /\ assign_pc = "start"
    /\ assignment_data \in SeqsUpTo(AssignmentInputs, MaxAssignments)
    /\ assignment_result = NoTable
    /\ WalkIdle
    /\ TablesIdle
    /\ directory = <<>>
    /\ DocIdle
    /\ BackupIdle
    /\ FormatIdle
    /\ ArchiveIdle
    /\ UpdateIdle
    /\ AppsIdle

\* assignments_table = assignment_table(repo_data)
AssignmentTable ==
    /\ assign_pc = "start"
    /\ assignment_result' =
           assignment_table([keys |-> {"assignments"}, assignments |-> assignment_data])
    /\ assign_pc' = "done"
    /\ UNCHANGED <<archive_vars, update_vars, apps_vars>>
    /\ UNCHANGED <<assignment_data, walk_vars, tables_vars, directory, doc_vars,
                   backup_vars, format_vars>>

SpecAssign == AssignInit /\ [][AssignmentTable]_vars

(***************************************************************************)
(* SpecFormat: clean_list on a list of one string                          *)
(***************************************************************************)
MaxValueLen == 4

\* characters that spell base64 data ("QQ==" is "A"), XML- and JSON-looking
\* texts and padded text, and the lone surrogate
FormatChars == {"Q", "U", "=", "<", ">", "[", "]", " ", Surrogate}

\* a value longer than LongValueLimit; its base64 data end at the padding
LongValue == <<"Q", "Q", "=", "=">> \o [i \in 1..LongValueLimit |-> "Q"]

FormatInputs == SeqsUpTo(FormatChars, MaxValueLen) \cup {LongValue, NotConfigured}

FormatInit ==
    /\ format_pc = "start"
    /\ format_input \in FormatInputs
    /\ format_decode \in BOOLEAN
    /\ format_result = NoValue
    /\ WalkIdle
    /\ TablesIdle
    /\ directory = <<>>
    /\ DocIdle
    /\ BackupIdle
    /\ AssignIdle
    /\ ArchiveIdle
    /\ UpdateIdle
    /\ AppsIdle

\* values = clean_list([format_input], format_decode)
CleanList ==
    /\ format_pc = "start"
    /\ format_result' = string(format_input, format_decode)
    /\ format_pc' = "done"
    /\ UNCHANGED <<archive_vars, update_vars, apps_vars>>
    /\ UNCHANGED <<format_input, format_decode, walk_vars, tables_vars, directory,
                   doc_vars, backup_vars, assign_vars>>

SpecFormat == FormatInit /\ [][CleanList]_vars

(***************************************************************************)
(* SpecDispatch: _extract_setting_rows_for_category on setting instances   *)
(* with any combination of the four value fields                           *)
(***************************************************************************)
ValueFields ==
    {"simpleSettingValue", "simpleSettingCollectionValue", "choiceSettingValue",
     "groupSettingCollectionValue"}

\* a setting instance with the value fields of keys
Instance(id, keys, simple, collection, choice, children, groups) ==
    [settingDefinitionId |-> id, keys |-> keys,
     simpleSettingValue |-> IF "simpleSettingValue" \in keys THEN simple ELSE <<>>,
     simpleSettingCollectionValue |->
         IF "simpleSettingCollectionValue" \in keys THEN collection ELSE <<>>,
     choiceValue |-> IF "choiceSettingValue" \in keys THEN choice ELSE <<>>,
     choiceChildren |-> IF "choiceSettingValue" \in keys THEN children ELSE <<>>,
     groupSettingCollectionValue |->
         IF "groupSettingCollectionValue" \in keys THEN groups ELSE <<>>]

\* the children: a leaf, and a leaf that has two value fields itself
DispatchChildren ==
    {Simple(<<"c">>, <<"B">>),
     Instance(<<"c">>, {"simpleSettingCollectionValue", "choiceSettingValue"},
              <<>>, <<<<"A">>>>, <<"3", "0">>, <<>>, <<>>)}

DispatchInputs ==
    {Instance(RootAddress, keys, simple, collection, choice, children, groups) :
        keys \in SUBSET ValueFields,
        simple \in {<<>>, <<"A">>},
        collection \in {<<>>, <<<<"B">>>>},
        choice \in ChoiceValues,
        children \in {<<>>} \cup {<<c>> : c \in DispatchChildren},
        groups \in {<<>>} \cup {<<<<c>>>> : c \in DispatchChildren}}

DispatchInit ==
    /\ walk_pc = "start"
    /\ setting_instance \in DispatchInputs
    /\ rows = <<>>
    /\ TablesIdle
    /\ directory = <<>>
    /\ DocIdle
    /\ BackupIdle
    /\ AssignIdle
    /\ FormatIdle
    /\ ArchiveIdle
    /\ UpdateIdle
    /\ AppsIdle

SpecDispatch == DispatchInit /\ [][Walk]_vars

(***************************************************************************)
(* SpecArchive: Archive.move_to_archive on a backup path                   *)
(***************************************************************************)
MaxFiles == 2

ArchiveFileNames ==
    {<<"a", ".", "j", "s", "o", "n">>, <<"b", ".", "j", "s", "o", "n">>,
     <<"a", ".", "y", "a", "m", "l">>, <<"a", ".", "t", "x", "t">>}

\* self.path, three ordinary directories, one of them nested, "Management
\* Intents" with a sub-directory, and excluded directories: the archive of an
\* earlier run and directories named archive
ArchiveRoots ==
    {<<>>, <<"Foo">>, <<"Foo", "Bar">>, <<"Baz">>, <<"Management Intents">>,
     <<"Management Intents", "archive">>, <<"__archive__", "earlier">>,
     <<"Foo", "archive">>}

ArchiveLocations == [root : ArchiveRoots, file : ArchiveFileNames]

Prefixes(root) == {SubSeq(root, 1, n) : n \in 1..Len(root)}

\* the content of a file is named by the place the file is at before the run
TreeOf(locs, more_dirs) ==
    [files |-> [loc \in locs |-> loc],
     dirs |-> UNION {Prefixes(loc.root) : loc \in locs} \cup more_dirs]

ArchiveTrees ==
    {TreeOf(locs, more_dirs) :
        locs \in {Range(q) : q \in SeqsUpTo(ArchiveLocations, MaxFiles)},
        more_dirs \in {{}, {<<"__archive__">>}}}

CreatedNames == {<<"a">>, <<"b">>}

ArchiveInit ==
    /\ archive_pc = "start"
    /\ tree \in ArchiveTrees
    /\ created_files \in SUBSET CreatedNames
    /\ filetype \in {JsonType, YamlType}
    /\ archived = EmptyTree
    /\ WalkIdle
    /\ TablesIdle
    /\ directory = <<>>
    /\ DocIdle
    /\ BackupIdle
    /\ AssignIdle
    /\ FormatIdle
    /\ UpdateIdle
    /\ AppsIdle

\* Archive(path, filetype).move_to_archive(created_files)
MoveToArchive ==
    /\ archive_pc = "start"
    /\ \E first \in WalkOrders(FirstLoopFiles(tree, created_files, filetype)),
          mgmt \in WalkOrders(MgmtLoopFiles(tree, created_files, filetype)) :
           archived' = move_to_archive(tree, first, mgmt)
    /\ archive_pc' = "done"
    /\ UNCHANGED <<tree, created_files, filetype, walk_vars, tables_vars, directory,
                   doc_vars, backup_vars, assign_vars, format_vars, update_vars,
                   apps_vars>>

SpecArchive == ArchiveInit /\ [][MoveToArchive]_vars

(***************************************************************************)
(* SpecUpdate: update of the Entra group settings                          *)
(***************************************************************************)
MaxGroupSettings == 2

GroupSettingIds == {"g1", "g2", "g3"}

GroupSettingValues == [{"EnableGroupCreation"} -> {"true", "false"}]

GroupSettingInputs ==
    {GroupSetting(id, id, values) : id \in GroupSettingIds, values \in GroupSettingValues}

\* the lists of settings, every id at most once
GroupSettingLists ==
    {list \in SeqsUpTo(GroupSettingInputs, MaxGroupSettings) :
        \A i, j \in DOMAIN list : list[i].id = list[j].id => i = j}

UpdateInit ==
    /\ update_pc = "start"
    /\ config_file \in BOOLEAN
    /\ repo_settings \in IF config_file THEN GroupSettingLists ELSE {<<>>}
    /\ group_settings \in GroupSettingLists
    /\ report \in BOOLEAN
    /\ patches = <<>>
    /\ diff_summary = <<>>
    /\ WalkIdle
    /\ TablesIdle
    /\ directory = <<>>
    /\ DocIdle
    /\ BackupIdle
    /\ AssignIdle
    /\ FormatIdle
    /\ ArchiveIdle
    /\ AppsIdle

\* diff_summary = update(path, token, report)
Update ==
    /\ update_pc = "start"
    /\ LET result == update(config_file, repo_settings, group_settings, report)
       IN /\ patches' = result.patches
          /\ diff_summary' = result.diff_summary
    /\ update_pc' = "done"
    /\ UNCHANGED <<config_file, repo_settings, group_settings, report, walk_vars,
                   tables_vars, directory, doc_vars, backup_vars, assign_vars,
                   format_vars, archive_vars, apps_vars>>

SpecUpdate == UpdateInit /\ [][Update]_vars

(***************************************************************************)
(* SpecApps: ApplicationsBackupModule.main on the applications of a tenant *)
(***************************************************************************)
MaxApps == 2

OfficeSuiteApp == GraphPrefix \o <<"o", "f", "f", "i", "c", "e", "S", "u", "i", "t", "e", "A", "p", "p">>

WebApp == GraphPrefix \o <<"w", "e", "b", "A", "p", "p">>

AndroidStoreApp == GraphPrefix \o <<"a", "n", "d", "r", "o", "i", "d", "S", "t", "o", "r", "e", "A", "p", "p">>

MacOSPkgApp == GraphPrefix \o <<"m", "a", "c", "O", "S", "P", "k", "g", "A", "p", "p">>

AppleId == <<"i", "t", "@", "c", "o", "r", "p">>

Version == <<"1", ".", "2">>

AppName == <<"A", "p", "p">>

AppInputs ==
    {App(IosVppApp, AppName, AppleId, <<>>, <<>>),
     App(MacOsVppApp, AppName, AppleId, <<>>, <<>>),
     App(Win32LobApp, AppName, <<>>, Version, <<>>),
     App(Win32LobApp, AppName, <<>>, <<>>, <<>>),
     App(WindowsMobileMSI, AppName, <<>>, <<>>, Version),
     App(OfficeSuiteApp, AppName, <<>>, <<>>, <<>>),
     App(WebApp, AppName, <<>>, <<>>, <<>>),
     App(AndroidStoreApp, AppName, <<>>, <<>>, <<>>),
     App(MacOSPkgApp, AppName, <<>>, <<>>, <<>>)}

AppsInit ==
    /\ apps_pc = "start"
    /\ apps \in SeqsUpTo(AppInputs, MaxApps)
    /\ app_results = <<>>
    /\ WalkIdle
    /\ TablesIdle
    /\ directory = <<>>
    /\ DocIdle
    /\ BackupIdle
    /\ AssignIdle
    /\ FormatIdle
    /\ ArchiveIdle
    /\ UpdateIdle

\* results = ApplicationsBackupModule(...).main()
AppsMain ==
    /\ apps_pc = "start"
    /\ \E request_raised \in BOOLEAN :
           LET result == main_of_applications(request_raised, apps)
           IN /\ app_results' = result.process_data
              /\ apps_pc' = IF result.returned_none THEN "failed" ELSE "done"
    /\ UNCHANGED <<apps, walk_vars, tables_vars, directory, doc_vars, backup_vars,
                   assign_vars, format_vars, archive_vars, update_vars>>

SpecApps == AppsInit /\ [][AppsMain]_vars

(***************************************************************************)
(* Spec: SettingsCatalogBackupModule.main backs the policies of the        *)
(* service up, then document_settings_catalog documents the files          *)
(***************************************************************************)
Init ==
    /\ backup_pc = "start"
    /\ \E n \in 0..MaxPolicies :
           /\ graph_data = GraphItems(n)
           /\ policy_responses \in [1..n -> SettingsResponses]
    /\ failing \in FailingSets
    /\ item_i = 0
    /\ requests = NoCount
    /\ warnings = NoCount
    /\ directory = <<>>
    /\ doc_pc = "start"
    /\ disk = FreshDisk
    /\ DocNotStarted
    /\ WalkIdle
    /\ TablesIdle
    /\ AssignIdle
    /\ FormatIdle
    /\ ArchiveIdle
    /\ UpdateIdle
    /\ AppsIdle

\* main up to its loop: the request for the policies raises and main returns
\* None, or the policies and their settings are there
FetchPolicies ==
    /\ backup_pc = "start"
    /\ \E ok \in BOOLEAN :
           /\ backup_pc' = IF ~ok THEN "failed"
                           ELSE IF graph_data = <<>> THEN "done" ELSE "loop"
           /\ item_i' = IF ok THEN 1 ELSE 0
    /\ UNCHANGED <<archive_vars, update_vars, apps_vars>>
    /\ UNCHANGED <<graph_data, policy_responses, failing, requests, warnings, directory,
                   doc_vars, walk_vars, tables_vars,
                   assign_vars, format_vars>>

\* one turn of "for item in self.graph_data['value']": the settings of the
\* item are enriched and the item is saved by process_data, which may raise
BackupItem ==
    /\ backup_pc = "loop"
    /\ LET item == graph_data[item_i]
           enriched == enrich_settings_with_definitions(policy_responses[item_i], failing)
           saved == IF policy_responses[item_i] # <<>>
                    THEN [item EXCEPT !.keys = @ \cup {"settings"},
                                      !.settings = enriched.settings]
                    ELSE item
       IN /\ graph_data' = [graph_data EXCEPT ![item_i] = saved]
          /\ requests' = [id \in BackupIds |->
                 requests[id] + (IF id \in enriched.requested THEN 1 ELSE 0)]
          /\ warnings' = [id \in BackupIds |->
                 warnings[id] + (IF id \in enriched.warned THEN 1 ELSE 0)]
          /\ \E processed \in BOOLEAN :
                 IF processed
                 THEN /\ directory' = [f \in DOMAIN directory \cup {BackupFileName(saved)} |->
                            IF f = BackupFileName(saved) THEN saved ELSE directory[f]]
                      /\ item_i' = item_i + 1
                      /\ backup_pc' = IF item_i = Len(graph_data) THEN "done" ELSE "loop"
                 ELSE /\ directory' = directory
                      /\ item_i' = item_i
                      /\ backup_pc' = "failed"
    /\ UNCHANGED <<archive_vars, update_vars, apps_vars>>
    /\ UNCHANGED <<policy_responses, failing, doc_vars, walk_vars, tables_vars,
                   assign_vars, format_vars>>

Next == FetchPolicies \/ BackupItem \/ DocStart \/ DocFile

Spec == Init /\ [][Next]_vars

(***************************************************************************)
(* The walker: completeness, document order, GroupCollection, fallback     *)
(* names (checked under SpecWalk)                                          *)
(***************************************************************************)
IsSimple(n) == n.keys = {"simpleSettingValue"}

IsSimpleCollection(n) == n.keys = {"simpleSettingCollectionValue"}

IsChoice(n) == n.keys = {"choiceSettingValue"}

IsGroupCollection(n) == n.keys = {"groupSettingCollectionValue"}

IsValueless(n) == n.keys = {}

\* the children of every group of a GroupCollection node
GroupChildren(n) == ConcatAll(n.groupSettingCollectionValue)

\* the nodes reachable from t, t included
RECURSIVE NodesOf(_)
NodesOf(t) ==
    {t}
    \cup (IF IsChoice(t) THEN UNION {NodesOf(c) : c \in Range(t.choiceChildren)} ELSE {})
    \cup (IF IsGroupCollection(t) THEN UNION {NodesOf(c) : c \in Range(GroupChildren(t))}
          ELSE {})

ValueNodes(t) ==
    {n \in NodesOf(t) : IsSimple(n) \/ IsSimpleCollection(n) \/ IsChoice(n)}

\* the nodes that stand for themselves although they hold no value: a node
\* with none of the four fields and a GroupCollection without any child
PlaceholderNodes(t) ==
    {n \in NodesOf(t) : IsValueless(n) \/ (IsGroupCollection(n) /\ GroupChildren(n) = <<>>)}

\* C1 as stated: the number of Rows equals the number of Simple,
\* SimpleCollection and Choice nodes reachable from the root.
C1_RowsEqualValueNodes ==
    walk_pc = "done" => Len(rows) = Cardinality(ValueNodes(setting_instance))

\* C1 amended: the number of Rows equals the number of Simple,
\* SimpleCollection and Choice nodes plus the number of nodes without any
\* value field and of GroupCollection nodes without any child, each of which
\* emits one Row ("Not configured", "Collection value"); a GroupCollection
\* with at least one child contributes no Row of its own.
C1_RowsEqualValueAndPlaceholderNodes ==
    walk_pc = "done" =>
        Len(rows) = Cardinality(ValueNodes(setting_instance))
                    + Cardinality(PlaceholderNodes(setting_instance))

\* a GroupCollection root holding an empty GroupCollection and a Simple node
C1_Witness ==
    /\ walk_pc = "done"
    /\ IsGroupCollection(setting_instance)
    /\ \E n \in Range(GroupChildren(setting_instance)) :
           IsGroupCollection(n) /\ GroupChildren(n) = <<>>
    /\ \E n \in Range(GroupChildren(setting_instance)) : IsSimple(n)
    /\ Len(rows) = 2

\* the address of the node a Row was emitted for (its label is the title-cased
\* address when no definition is known)
RowAddress(row) == Lower(row[1])

\* C2: the Rows come in document order: their addresses are addresses of
\* nodes of the tree and strictly increase in dictionary order, so that a
\* Choice comes before its descendants, the Rows of a subtree are contiguous
\* and siblings keep their order.
C2_DocumentOrder ==
    (walk_pc = "done" /\ setting_instance.settingDefinitionId = RootAddress) =>
        /\ \A i \in DOMAIN rows :
               \E n \in NodesOf(setting_instance) :
                   n.settingDefinitionId = RowAddress(rows[i])
        /\ \A i, j \in DOMAIN rows :
               i < j => StrLess(RowAddress(rows[i]), RowAddress(rows[j]))

\* a Choice whose first child is a Choice with a child of its own
C2_Witness ==
    /\ walk_pc = "done"
    /\ IsChoice(setting_instance)
    /\ setting_instance.choiceChildren # <<>>
    /\ IsChoice(setting_instance.choiceChildren[1])
    /\ setting_instance.choiceChildren[1].choiceChildren # <<>>
    /\ Len(rows) = 3

\* the Rows of the children, group by group and child by child
RowsOfGroups(groups) ==
    ConcatAll([g \in DOMAIN groups |->
        ConcatAll([c \in DOMAIN groups[g] |->
            extract_setting(groups[g][c], NoDefinitions, NoDefinitions)])])

TwoGroupsAB ==
    GroupCollection(RootAddress,
        <<<<Simple(<<"s", "a", "1">>, <<"A">>)>>, <<Simple(<<"s", "b", "1">>, <<"B">>)>>>>)

\* C3: for a GroupCollection root the Rows are the Rows of the children of
\* its groups, group by group and child by child in order, with no Row for
\* the container; when no group has a child there is exactly one Row, whose
\* value is "Collection value".  Two groups holding Simple "A" and Simple
\* "B" give two Rows, "A" then "B".
C3_GroupCollection ==
    (walk_pc = "done" /\ IsGroupCollection(setting_instance)) =>
        /\ GroupChildren(setting_instance) # <<>> =>
               rows = RowsOfGroups(setting_instance.groupSettingCollectionValue)
        /\ GroupChildren(setting_instance) = <<>> =>
               Len(rows) = 1 /\ rows[1][2] = CollectionValue
        /\ setting_instance = TwoGroupsAB =>
               Len(rows) = 2 /\ rows[1][2] = <<"A">> /\ rows[2][2] = <<"B">>

C3_Witness == walk_pc = "done" /\ setting_instance = TwoGroupsAB

LabelYZSetting == <<"Y", " ", "Z", " ", "S", "e", "t", "t", "i", "n", "g">>

LabelZSetting == <<"Z", " ", "S", "e", "t", "t", "i", "n", "g">>

HasInstance(setting) == "settingInstance" \in setting.keys

\* the definitions of the setting that describe its root node
RootDefinitions(setting) ==
    SelectSeq(SettingDefinitionsOf(setting),
              LAMBDA d : d.id = setting.settingInstance.settingDefinitionId)

\* the resolved category of the root node, "Other Settings" when unresolved
RootCategory(setting) ==
    IF RootDefinitions(setting) # <<>>
       /\ "categoryDisplayName" \in RootDefinitions(setting)[1].keys
    THEN RootDefinitions(setting)[1].categoryDisplayName
    ELSE OtherSettings

\* the Rows of the walks of the settings selected by Keep, in setting order
RowsOfSettings(Keep(_)) ==
    ConcatAll([i \in DOMAIN settings |->
        IF Keep(settings[i])
        THEN SettingRows(settings[i], build_definitions_lookup(settings))
        ELSE <<>>])

GroupRows(category) ==
    IF category \in Range(CategoryKeys(tables_result.category_map))
    THEN RowsOfCategory(tables_result.category_map, category)
    ELSE <<>>

\* C8: the Rows of every setting tree are in the one group keyed by the
\* resolved category of its root node, or by "Other Settings" when the
\* root's category is unresolved, also when only definitions of children
\* were resolved: every group holds exactly the Rows of the trees whose root
\* category is its key.
C8_GroupedByRootCategory ==
    (tables_pc = "done" /\ ~tables_result.raised) =>
        \A category \in {RootCategory(settings[i]) : i \in DOMAIN settings}
                        \cup Range(CategoryKeys(tables_result.category_map)) :
            GroupRows(category) =
                RowsOfSettings(LAMBDA x : HasInstance(x) /\ RootCategory(x) = category)

\* the indices of the category rows of the table
MarkerIndices == {i \in DOMAIN tables_result.table_rows : Len(tables_result.table_rows[i]) = 1}

\* the categories the settings were given
CategoriesUsed == {CategoryOf(settings[i]) : i \in DOMAIN settings}

\* the category whose row is at index i
CategoryAt(i) ==
    CHOOSE category \in CategoriesUsed : tables_result.table_rows[i] = CategoryRow(category)

\* C10: in the grouped table every category label appears exactly once, as
\* a category row immediately followed by all Rows of that category in the
\* order they were produced; the categories are in alphabetical,
\* case-insensitive order; every other row has exactly three cells.
C10_GroupedTable ==
    (tables_pc = "done" /\ ~tables_result.raised /\ settings # <<>>) =>
        LET table_rows == tables_result.table_rows IN
        /\ \A category \in CategoriesUsed :
               Cardinality({i \in DOMAIN table_rows : table_rows[i] = CategoryRow(category)}) = 1
        /\ \A i \in MarkerIndices :
               \E category \in CategoriesUsed : table_rows[i] = CategoryRow(category)
        /\ \A i \in MarkerIndices :
               LET produced == RowsOfSettings(LAMBDA x : CategoryOf(x) = CategoryAt(i)) IN
               /\ i + Len(produced) <= Len(table_rows)
               /\ SubSeq(table_rows, i + 1, i + Len(produced)) = produced
               /\ (i + Len(produced) < Len(table_rows) =>
                       (i + Len(produced) + 1) \in MarkerIndices)
        /\ \A i, j \in MarkerIndices :
               i < j => ~StrLess(Lower(CategoryAt(j)), Lower(CategoryAt(i)))
        /\ \A i \in DOMAIN table_rows : i \notin MarkerIndices => Len(table_rows[i]) = 3
        /\ 1 \in MarkerIndices

\* "Sec" was met before "app", and the table starts with "app"
C10_Witness ==
    /\ tables_pc = "done"
    /\ ~tables_result.raised
    /\ CategoryKeys(tables_result.category_map) = <<CatSec, CatApp>>
    /\ tables_result.table_rows[1] = CategoryRow(CatApp)
    /\ Len(tables_result.table_rows) > 3

(***************************************************************************)
(* The backup and the documentation of its files (checked under Spec)      *)
(***************************************************************************)
\* the items main has given their enriched settings
EnrichedItems == {k \in DOMAIN graph_data : "settings" \in graph_data[k].keys}

\* the ids of the definitions a setting of a backup carries
DefinitionIdsOf(setting) ==
    {setting.settingDefinitions[j].id : j \in DOMAIN setting.settingDefinitions}

\* the rows of the table of the k-th documented file
TableRowsOf(k) == documented[k].settings_tables.table_rows

\* C4: also for the definitions the backup of the same run writes, the Row
\* of a Choice node shows the display name of the option whose value is the
\* selected value: for every documented policy, a Choice root whose
\* definition the service returned has a Row with the definition's display
\* name and the display name of the matching option.
C4_ChoiceShowsOptionName ==
    \A k \in DOMAIN documented :
        LET policy_settings == SettingsOf(directory[documented[k].filename]) IN
        ~documented[k].settings_tables.raised =>
            \A i \in DOMAIN policy_settings :
                LET root == policy_settings[i].settingInstance
                    definition == ConfigurationSettings(root.settingDefinitionId)
                IN (IsChoice(root) /\ root.settingDefinitionId \notin failing) =>
                       \E r \in DOMAIN TableRowsOf(k) :
                           /\ Len(TableRowsOf(k)[r]) = 3
                           /\ TableRowsOf(k)[r][1] = definition.displayName
                           /\ TableRowsOf(k)[r][2] =
                                  ChoiceValueShown(definition, root.choiceValue)

\* C6: in a run of main, whatever the policies and however many of their
\* nodes name it, a definition id is requested at most once.
C6_AtMostOneRequestPerId == \A id \in BackupIds : requests[id] <= 1

\* C7: a request for a definition that raises does not end the enrichment
\* of the policy: the settings come back enriched, every setting carries
\* the definitions of exactly those of its ids whose request did not raise,
\* with the display name the service gave, and one warning is logged per
\* policy and failing id.
C7_FailedLookupIsSkipped ==
    /\ \A k \in DOMAIN graph_data :
           (k < item_i /\ policy_responses[k] # <<>>) => k \in EnrichedItems
    /\ \A k \in EnrichedItems :
           \A i \in DOMAIN graph_data[k].settings :
               LET setting == graph_data[k].settings[i] IN
               /\ "settingDefinitions" \in setting.keys
               /\ DefinitionIdsOf(setting) =
                      collect_definition_ids(setting.settingInstance) \ failing
               /\ \A j \in DOMAIN setting.settingDefinitions :
                      setting.settingDefinitions[j].displayName =
                          ConfigurationSettings(setting.settingDefinitions[j].id).displayName
    /\ \A id \in BackupIds :
           warnings[id] =
               Cardinality({k \in EnrichedItems :
                                id \in definition_ids(policy_responses[k]) \cap failing})

\* a policy was backed up of which one id failed and another was resolved
C7_Witness ==
    /\ backup_pc = "done"
    /\ \E k \in EnrichedItems :
           \E i \in DOMAIN graph_data[k].settings :
               /\ collect_definition_ids(graph_data[k].settings[i].settingInstance)
                      \cap failing # {}
               /\ graph_data[k].settings[i].settingDefinitions # <<>>
    /\ \E id \in failing : warnings[id] >= 1

(***************************************************************************)
(* The tables of a document (checked under SpecDoc)                        *)
(***************************************************************************)
\* the files documented without an exception
Rendered == {k \in DOMAIN documented : documented[k].exception = "None"}

\* the category labels the k-th documented policy gives its settings
CategoriesOfPolicy(k) ==
    LET policy_settings == SettingsOf(directory[documented[k].filename]) IN
    IF k \in Rendered
    THEN {CategoryOf(policy_settings[i]) : i \in DOMAIN policy_settings}
    ELSE {}

\* the Rows of the settings of one policy that were given the category, in
\* setting order
ProducedRows(policy_settings, category) ==
    ConcatAll([i \in DOMAIN policy_settings |->
        IF CategoryOf(policy_settings[i]) = category
        THEN SettingRows(policy_settings[i], build_definitions_lookup(policy_settings))
        ELSE <<>>])

ConfigurationHeading == <<"#", "#", "#", "#", " ">> \o ConfigurationName \o <<"\n">>

\* the tables of a document: the strings written after a Configuration heading
ConfigurationTables(path) ==
    LET content == disk[path] IN
    ConcatAll([c \in DOMAIN content |->
        IF c > 1 /\ content[c - 1] = ConfigurationHeading THEN <<content[c]>> ELSE <<>>])

\* the documented files whose section is in the document: all that were
\* written to it, or the last one when every policy empties its own file
SectionsOf(path) ==
    LET written == SelectSeq([k \in DOMAIN documented |-> k],
                       LAMBDA k : k \in Rendered /\ documented[k].target_md = path)
    IN IF split_per_config /\ written # <<>> THEN <<written[Len(written)]>> ELSE written

\* the documents the policies were written to
Targets == {documented[k].target_md : k \in Rendered}

C11_SecondRunLeavesSameDocuments ==
    (run = 2 /\ doc_pc = "done") => disk = previous

(***************************************************************************)
(* The sections of a run (checked under SpecDoc)                           *)
(***************************************************************************)
\* part is a run of consecutive strings of content
ContainsSeq(content, part) ==
    \E i \in 0..(Len(content) - Len(part)) : SubSeq(content, i + 1, i + Len(part)) = part

\* the strings the k-th documented policy wrote to its target
SectionOf(k) ==
    SectionWrites(directory[documented[k].filename], split_per_config,
                  documented[k].settings_tables.tables)

\* C12: at the end of a run the section of every policy that was rendered
\* without an exception is in its target document, in every placement mode,
\* also when two policies have names that sanitize to the same file name.
C12_EverySectionPresent ==
    doc_pc = "done" =>
        \A k \in Rendered :
            /\ documented[k].target_md \in DOMAIN disk
            /\ ContainsSeq(disk[documented[k].target_md], SectionOf(k))

\* the documented files whose record is malformed: processing them raised,
\* or a setting without settingInstance was left out of the table
Malformed ==
    {k \in DOMAIN documented :
        \/ documented[k].exception \in {"KeyError", "IndexError"}
        \/ \E i \in DOMAIN SettingsOf(directory[documented[k].filename]) :
               "settingInstance" \notin SettingsOf(directory[documented[k].filename])[i].keys}

\* C14: one bad record does not suppress the batch.  Every turn of the loop
\* is followed by the turn of the next file, whatever it raised, so at the
\* end every file of the directory has had its turn, in order; a turn that
\* does not raise ends with the whole section of its policy written at the
\* end of its target; in single and split-by-type mode every such section
\* is in the document at the end.
C14_BadRecordDoesNotSuppressBatch ==
    /\ [](doc_pc = "done" =>
            /\ [k \in DOMAIN documented |-> documented[k].filename] = files
            /\ Range(files) = DOMAIN directory
            /\ ~split_per_config =>
                   \A k \in Rendered :
                       ContainsSeq(disk[documented[k].target_md], SectionOf(k)))
    /\ [][doc_pc = "loop" =>
            /\ Len(documented') = Len(documented) + 1
            /\ documented'[Len(documented')].filename = files[file_i]
            /\ documented'[Len(documented')].exception = "None" =>
                   EndsWith(disk'[documented'[Len(documented')].target_md],
                            SectionWrites(directory[files[file_i]], split_per_config,
                                documented'[Len(documented')].settings_tables.tables))]_vars

\* a file whose processing raised was followed by a file that was rendered,
\* and the section of that file is in its target
C14_Witness ==
    /\ doc_pc = "done"
    /\ \E k1, k2 \in DOMAIN documented :
           /\ k1 < k2
           /\ documented[k1].exception \in {"KeyError", "IndexError"}
           /\ k2 \in Rendered
           /\ k2 \in Malformed
           /\ ContainsSeq(disk[documented[k2].target_md], SectionOf(k2))

\* the content of the shared target before the call wrote to it: the file of
\* the type starts empty, the single file keeps what it held
TargetBase == IF split THEN <<>> ELSE PriorContent

\* C16: the policies are processed one after the other in case-insensitive
\* lexicographic order of their file names, and in single and split-by-type
\* mode the target document is the type heading followed by the sections of
\* the rendered policies in exactly that order.
C16_SectionsInCaseInsensitiveOrder ==
    /\ \A k1, k2 \in DOMAIN documented :
           k1 < k2 => StrLess(Lower(documented[k1].filename), Lower(documented[k2].filename))
    /\ (doc_pc = "done" /\ ~split_per_config) =>
           disk[IF split THEN TypePath ELSE OutPath] =
               TargetBase \o <<TypeHeading>>
               \o ConcatAll([k \in DOMAIN documented |->
                      IF k \in Rendered THEN SectionOf(k) ELSE <<>>])

\* the sections of "a.json" and "B.json", in this order, follow the type
\* heading of a shared document
C16_Witness ==
    /\ doc_pc = "done"
    /\ ~split_per_config
    /\ Len(documented) = 2
    /\ Rendered = {1, 2}
    /\ documented[1].filename = FileNames[1]
    /\ documented[2].filename = FileNames[2]
    /\ SectionOf(1) # SectionOf(2)
    /\ ContainsSeq(disk[documented[1].target_md], <<TypeHeading>> \o SectionOf(1) \o SectionOf(2))

\* the names are in ascending order, compared as they are or case-folded
SortedByName(md_files) ==
    \/ \A i, j \in DOMAIN md_files : i < j => StrLess(md_files[i], md_files[j])
    \/ \A i, j \in DOMAIN md_files :
           i < j => StrLess(Lower(md_files[i]), Lower(md_files[j]))

\* C17: after a run in split-per-config mode that rendered a policy, the
\* index file of the type lists every document of docs/ exactly once, and
\* the entries are sorted by file name.
C17_IndexListsDocumentsSorted ==
    (doc_pc = "done" /\ split_per_config /\ Rendered # {}) =>
        \E md_files \in Orderings(DocsFiles(disk)) :
            /\ disk[TypePath] = IndexWrites(md_files)
            /\ SortedByName(md_files)

(***************************************************************************)
(* Exceptions while a policy is processed (checked under SpecDocIO)        *)
(***************************************************************************)
\* this step is a turn of the loop, in single or split-by-type mode, in which
\* the processing of the policy raised
FailedTurn ==
    /\ doc_pc = "loop"
    /\ ~split_per_config
    /\ Len(documented') = Len(documented) + 1
    /\ documented'[Len(documented')].exception # "None"

\* C13 as the specification states it: when the processing of a policy raises,
\* the shared target document is exactly what it was before the policy was
\* started.
C13_FailedRenderLeavesTargetAsItWas ==
    [][FailedTurn => disk' = disk]_vars

\* C13: when the processing of a policy raises, nothing the shared target
\* held before the policy was started is removed or overwritten: the target
\* is what it was, followed by the strings of the section written before the
\* exception, which are none when the exception is the KeyError or the
\* IndexError of building the tables; every other file is what it was.
C13_FailedRenderKeepsEarlierContent ==
    [][FailedTurn =>
        LET k == Len(documented')
            target_md == documented'[k].target_md
            section == SectionWrites(directory[documented'[k].filename], FALSE,
                                     documented'[k].settings_tables.tables)
        IN /\ DOMAIN disk' = DOMAIN disk
           /\ \A path \in DOMAIN disk \ {target_md} : disk'[path] = disk[path]
           /\ \E kept \in 0..(Len(section) - 1) :
                  disk'[target_md] = disk[target_md] \o SubSeq(section, 1, kept)
           /\ documented'[k].exception \in {"KeyError", "IndexError"} => disk' = disk]_vars

\* a run in which a write failed in the middle of a section, so that the
\* shared target holds the header of the policy without its Basics table, and
\* in which a policy raised before its first write
C13_Witness ==
    /\ doc_pc = "done"
    /\ ~split_per_config
    /\ \E k \in DOMAIN documented :
           /\ documented[k].exception = "OSError"
           /\ ContainsSeq(disk[documented[k].target_md], SubSeq(SectionOf(k), 1, 1))
           /\ ~ContainsSeq(disk[documented[k].target_md], SectionOf(k))
    /\ \E k \in DOMAIN documented : documented[k].exception \in {"KeyError", "IndexError"}

\* C15: whenever a write to the target document fails, the type heading or
\* the section of a policy, document_settings_catalog raises to its caller:
\* no run goes on after the OSError of a section.
C15_WriteFailurePropagates ==
    (\E k \in DOMAIN documented : documented[k].exception = "OSError") => doc_pc = "raised"

(***************************************************************************)
(* The intent column (checked under SpecAssign)                            *)
(***************************************************************************)
\* the intent the specification gives an assignment
SpecifiedIntent(assignment) ==
    IF "intent" \in assignment.keys /\ assignment.intent \notin {<<>>, Apply}
    THEN assignment.intent
    ELSE IF assignment.target.odata_type = ExclusionGroupTarget THEN Exclude
    ELSE Include

\* C18: the intents of the rows of the assignment table are the intents of
\* the assignments: the explicit intent when it is non-empty and not "apply",
\* otherwise "Exclude" for an exclusion-group target and "Include" for every
\* other target type.
C18_IntentShown ==
    assign_pc = "done" =>
        /\ Len(assignment_result.assignment_list) = Len(assignment_data)
        /\ \A intent \in {Include, Exclude, Required, <<>>} :
               Cardinality({r \in DOMAIN assignment_result.assignment_list :
                                assignment_result.assignment_list[r][1] = intent})
               = Cardinality({i \in DOMAIN assignment_data :
                                  SpecifiedIntent(assignment_data[i]) = intent})

(***************************************************************************)
(* The value formatter (checked under SpecFormat)                          *)
(***************************************************************************)
\* C19: the value formatter is total: for every string, with and without the
\* decode option, clean_list returns a value and does not raise.
C19_FormatterNeverRaises ==
    format_pc = "done" => ~format_result.raised

\* base64.b64encode(bytes)
RECURSIVE b64encode(_)
b64encode(bytes) ==
    IF bytes = <<>> THEN <<>>
    ELSE LET b1 == bytes[1]
             b2 == IF Len(bytes) >= 2 THEN bytes[2] ELSE 0
             b3 == IF Len(bytes) >= 3 THEN bytes[3] ELSE 0
         IN <<B64Chars[(b1 \div 4) + 1],
              B64Chars[(b1 % 4) * 16 + (b2 \div 16) + 1],
              IF Len(bytes) >= 2 THEN B64Chars[(b2 % 16) * 4 + (b3 \div 64) + 1] ELSE "=",
              IF Len(bytes) >= 3 THEN B64Chars[(b3 % 64) + 1] ELSE "=">>
            \o b64encode(SubSeq(bytes, 4, Len(bytes)))

\* texts whose base64 encodings are among the inputs: "A" is "QQ==", "Q" is
\* "UQ==", "AD" is "QUQ=", "QE" is "UUU="
Utf8Texts == SeqsUpTo({"A", "D", "E", "Q"}, 2) \ {<<>>}

\* C20: with decode enabled, a string that is the base64 encoding of a UTF-8
\* text is replaced by that text before it is formatted, and a string that
\* does not decode (bad padding or alphabet, or bytes that are not UTF-8) is
\* formatted as it is.
C20_Base64IsDecoded ==
    (format_pc = "done" /\ format_decode) =>
        /\ \A text \in Utf8Texts :
               format_input = b64encode(encode(text).bytes) =>
                   /\ ~format_result.raised
                   /\ format_result.value = string(text, FALSE).value
        /\ decode_base64(format_input).raised =>
               /\ ~format_result.raised
               /\ format_result.value = string(format_input, FALSE).value

(***************************************************************************)
(* Archive.move_to_archive                                                 *)
(***************************************************************************)
\* the place archive_file moves a file named file to
Archived(file) == [root |-> archive_path, file |-> file]

\* a directory below self.path none of whose names is excluded
Ordinary(root) == root # <<>> /\ \A i \in DOMAIN root : root[i] \notin exclude

\* the name without the extension ".<filetype>"
WithoutExtension(file, type) ==
    IF EndsWith(file, Dot(type)) THEN SubSeq(file, 1, Len(file) - Len(Dot(type)))
    ELSE file

\* the backup files C21 is about
Removed(loc) ==
    /\ IsBackupFile(loc.file)
    /\ Ordinary(loc.root) \/ IsPrefix(mgmt_path, loc.root)
    /\ WithoutExtension(loc.file, filetype) \notin created_files

\* C21: after move_to_archive every .json/.yaml file in an ordinary
\* sub-directory or under "Management Intents" whose name without the
\* extension is not in created_files is at __archive__/<date_tag>/<file name>
\* and no longer at the place it was.
C21_RemovedFilesAreInArchive ==
    archive_pc = "done" =>
        \A loc \in DOMAIN tree.files :
            Removed(loc) =>
                /\ loc \notin DOMAIN archived.files
                /\ Archived(loc.file) \in DOMAIN archived.files
                /\ archived.files[Archived(loc.file)] = tree.files[loc]

\* C22: after move_to_archive the directory __archive__ exists, whatever
\* created_files contains and whether or not a file was archived.
C22_ArchiveFolderExists == archive_pc = "done" => <<"__archive__">> \in archived.dirs

\* __archive__ was not there, files were, and none of them was archived
C22_Witness ==
    /\ archive_pc = "done"
    /\ <<"__archive__">> \notin tree.dirs
    /\ tree.files # <<>>
    /\ archived.files = tree.files
    /\ created_files # {}

\* the files C27 says are not archived
CreatedFile(loc) ==
    IsBackupFile(loc.file) /\ ReplaceAll(loc.file, Dot(filetype), <<>>) \in created_files

TopLevelJson(loc) == loc.root = <<>> /\ EndsWith(loc.file, Dot(JsonType))

BelowExcluded(loc) ==
    \E i \in DOMAIN loc.root : loc.root[i] \in exclude \ {"Management Intents"}

Stays(loc) == loc \in DOMAIN archived.files /\ archived.files[loc] = tree.files[loc]

\* C27: move_to_archive leaves at its place, with its content, every
\* .json/.yaml file whose name without ".<filetype>" is in created_files,
\* every .json file directly in the backup path and every file below an
\* excluded directory other than "Management Intents".
C27_ExemptFilesStay ==
    archive_pc = "done" =>
        \A loc \in DOMAIN tree.files :
            (CreatedFile(loc) \/ TopLevelJson(loc) \/ BelowExcluded(loc)) => Stays(loc)

\* C27 as amended: an excluded directory protects its files only when it is
\* not below <path>/"Management Intents", whose walk prunes nothing.
C27_ExemptFilesOutsideManagementIntentsStay ==
    archive_pc = "done" =>
        \A loc \in DOMAIN tree.files :
            (\/ CreatedFile(loc)
             \/ TopLevelJson(loc)
             \/ BelowExcluded(loc) /\ ~IsPrefix(mgmt_path, loc.root)) => Stays(loc)

\* a .json file directly in the backup path that is not in created_files
\* stays while another file is archived
C27_Witness ==
    /\ archive_pc = "done"
    /\ \E loc \in DOMAIN tree.files :
           TopLevelJson(loc) /\ ~CreatedFile(loc) /\ Stays(loc)
    /\ \E loc \in DOMAIN tree.files : loc \notin DOMAIN archived.files

\* C28: after move_to_archive every file that is no longer at its place is
\* in __archive__/<date_tag>/ with its content, also when two archived files
\* of different directories have the same name.
C28_NoFileIsLost ==
    archive_pc = "done" =>
        \A loc \in DOMAIN tree.files :
            loc \notin DOMAIN archived.files =>
                /\ Archived(loc.file) \in DOMAIN archived.files
                /\ archived.files[Archived(loc.file)] = tree.files[loc]

(***************************************************************************)
(* update (Entra Group Settings)                                           *)
(***************************************************************************)
PatchesFor(id) == {i \in DOMAIN patches : patches[i].id = id}

\* C23: when report is False, for every group setting that is both in the
\* repository file and in Entra (same id) with values that differ, one PATCH
\* with the repository version is made for that id, wherever the setting is
\* in either list.
C23_EveryDifferingSettingIsPatched ==
    (update_pc = "done" /\ report = FALSE) =>
        \A i \in DOMAIN repo_settings, j \in DOMAIN group_settings :
            (/\ repo_settings[i].id = group_settings[j].id
             /\ values_changed(group_settings[j].values, repo_settings[i].values) # {})
                => /\ Cardinality(PatchesFor(repo_settings[i].id)) = 1
                   /\ \A p \in PatchesFor(repo_settings[i].id) :
                          patches[p].jdata = repo_settings[i]

\* the turns of zip(repo_data["value"], entra_data["value"])
Paired == 1..Min(Len(repo_settings), Len(group_settings))

\* the turns whose two settings have the same id
Matching == {i \in Paired : repo_settings[i].id = group_settings[i].id}

\* C29: in report mode update makes no PATCH request, whatever the repository
\* file and Entra hold, and the diff summary it returns has one entry for
\* every positionally paired setting with matching ids.
C29_ReportModeMakesNoPatch ==
    (update_pc = "done" /\ report = TRUE) =>
        /\ patches = <<>>
        /\ Len(diff_summary) = Cardinality(Matching)
        /\ \A i \in Matching :
               \E k \in DOMAIN diff_summary :
                   /\ diff_summary[k].name = repo_settings[i].displayName
                   /\ diff_summary[k].data =
                          values_changed(group_settings[i].values, repo_settings[i].values)

\* a report run over a pair with the same id and different values, which a
\* run with report False patches
C29_Witness ==
    /\ update_pc = "done"
    /\ report = TRUE
    /\ \E i \in Matching :
           values_changed(group_settings[i].values, repo_settings[i].values) # {}
    /\ diff_summary # <<>>

(***************************************************************************)
(* ApplicationsBackupModule.main                                           *)
(***************************************************************************)
\* the folder below Applications/ the i-th application is stored in
FolderOf(i) ==
    SubSeq(app_results[i].path, Len(ApplicationsPath) + 1, Len(app_results[i].path) - 1)

WindowsTypes == {Win32LobApp, WindowsMobileMSI}

\* C30: main stores every application under the platform folder its type
\* maps to: an office-suite type under "Office Suite", a web-app type under
\* "Web App", and only Windows types under "Windows".
C30_StoredUnderItsPlatform ==
    apps_pc = "done" =>
        \A i \in DOMAIN apps :
            /\ apps[i].odata_type = OfficeSuiteApp => FolderOf(i) = <<"O", "f", "f", "i", "c", "e", " ", "S", "u", "i", "t", "e">>
            /\ apps[i].odata_type = WebApp => FolderOf(i) = <<"W", "e", "b", " ", "A", "p", "p">>
            /\ FolderOf(i) = <<"W", "i", "n", "d", "o", "w", "s">> => apps[i].odata_type \in WindowsTypes

(***************************************************************************)
(* Variant dispatch of the walker                                          *)
(***************************************************************************)
Precedence ==
    <<"simpleSettingValue", "simpleSettingCollectionValue", "choiceSettingValue",
      "groupSettingCollectionValue">>

\* the first of the value fields of n in the order of Precedence
ChosenField(n) ==
    Precedence[CHOOSE i \in 1..4 :
                   /\ Precedence[i] \in n.keys
                   /\ \A j \in 1..(i - 1) : Precedence[j] \notin n.keys]

\* n without its value fields other than field
WithOnly(n, field) ==
    Instance(n.settingDefinitionId, {field}, n.simpleSettingValue,
             n.simpleSettingCollectionValue, n.choiceValue, n.choiceChildren,
             n.groupSettingCollectionValue)

\* C26: the walker turns a node without any of the four value fields into
\* exactly one Row with the value "Not configured", and a node with several
\* value fields into the Rows of the one variant that comes first in the
\* order Simple, SimpleCollection, Choice, GroupCollection; the other fields
\* and their children are ignored.
C26_DispatchByPrecedence ==
    walk_pc = "done" =>
        IF setting_instance.keys = {}
        THEN Len(rows) = 1 /\ rows[1][2] = NotConfigured
        ELSE rows = extract_setting_rows_for_category(
                        WithOnly(setting_instance, ChosenField(setting_instance)),
                        NoDefinitions, NoDefinitions)

\* a node that is a Simple and a Choice with a child: one Row, the child is
\* not walked
C26_Witness ==
    /\ walk_pc = "done"
    /\ {"simpleSettingValue", "choiceSettingValue"} \subseteq setting_instance.keys
    /\ setting_instance.choiceChildren # <<>>
    /\ Len(rows) = 1

(***************************************************************************)
(* The ids collected before the walk                                       *)
(***************************************************************************)
\* the instances extract_setting calls itself for at the node n
VisitedChildren(n) ==
    IF n.keys = {} THEN <<>>
    ELSE IF ChosenField(n) = "choiceSettingValue" THEN n.choiceChildren
    ELSE IF ChosenField(n) = "groupSettingCollectionValue"
    THEN ConcatAll(n.groupSettingCollectionValue)
    ELSE <<>>

\* the settingDefinitionId of every node extract_setting visits from n on
RECURSIVE VisitedIds(_)
VisitedIds(n) ==
    {n.settingDefinitionId} \cup UNION {VisitedIds(c) : c \in Range(VisitedChildren(n))}

\* the setting instances of the backup files
BackedUpInstances ==
    UNION {{directory[f].settings[i].settingInstance :
               i \in {k \in 1..Len(directory[f].settings) :
                         "settingInstance" \in directory[f].settings[k].keys}} :
           f \in DOMAIN directory}

\* the ids a GET configurationSettings/{id} was made for
Submitted == {id \in BackupIds : requests[id] >= 1}

\* C24: the ids collect_definition_ids gathers from a setting instance
\* contain the settingDefinitionId of every node the walker visits (the
\* root, the children of Choice nodes and of every group of GroupCollection
\* nodes), so every id the walk meets was requested during the backup, and
\* the documentation makes no request.
C24_VisitedIdsWereCollected ==
    /\ [](\A instance \in BackedUpInstances :
              /\ VisitedIds(instance) \subseteq collect_definition_ids(instance)
              /\ VisitedIds(instance) \subseteq Submitted)
    /\ [][(doc_pc' # doc_pc \/ file_i' # file_i) => requests' = requests]_vars

\* a policy whose tree has children was backed up and documented
C24_Witness ==
    /\ doc_pc = "done"
    /\ documented # <<>>
    /\ \E instance \in BackedUpInstances :
           /\ VisitedChildren(instance) # <<>>
           /\ Cardinality(VisitedIds(instance)) >= 2

(***************************************************************************)
(* The category of a resolved entry                                        *)
(***************************************************************************)
\* the display name of the root category the service gives for the category
\* reference of a definition; the chain lookup of the other ids fails
ServiceRootCategory(id) == IF id = IdPolicyTimeout THEN CatSec ELSE <<>>

\* the entries of settingDefinitions in the backup files
BackedUpDefinitions ==
    UNION {UNION {Range(directory[f].settings[i].settingDefinitions) :
                      i \in {k \in 1..Len(directory[f].settings) :
                                "settingDefinitions" \in directory[f].settings[k].keys}} :
           f \in DOMAIN directory}

\* C25: every entry the registry resolves carries a category: the display
\* name of the root category when the definition has a category reference
\* and the chain lookup succeeds, the empty string when the lookup fails.
C25_ResolvedEntryCarriesCategory ==
    \A definition \in BackedUpDefinitions :
        /\ "categoryDisplayName" \in definition.keys
        /\ definition.categoryDisplayName = ServiceRootCategory(definition.id)
====
